---- MODULE Spec2Model ----
(***************************************************************************)
(* Job Sync Engine of optimus: the RuntimeServiceServer handlers of        *)
(* api/handler/v1/runtime.go driving the job service (Create, KeepOnly,    *)
(* Sync), the dependency and priority resolvers, the two stores and the    *)
(* progress observers.                                                     *)
(*                                                                         *)
(* A job is identified by its name, a number of 1..NumNames.  A job spec   *)
(* is the set of job names it depends on; a name of that set that is not   *)
(* in the SpecStore is an unknown dependency.                              *)
(***************************************************************************)
EXTENDS Integers, FiniteSets, Sequences, TLC

\* ---------------------------------------------------------------- bounds
NumNames == 2
MaxJobs == 2
NumNodes == 3
Workers == 2
MaxTime == 2
MaxValueLen == 2
MaxResources == 2
MaxNameLen == 4
MaxVersion == 1
MaxExpiration == 2

\* ------------------------------------------------------- program constants
\* The weight of a job that depends on nothing, and the stride between two
\* levels of the dependency tree.  The stride is fixed; whatever its value, the
\* weights along a chain of dependents decrease by at least 1 per level.
MaxPriorityWeight == 10000
PriorityWeightGap == 10

Names == 1..NumNames

\* ---------------------------------------------------------------- helpers
Range(s) == {s[i] : i \in DOMAIN s}

MaxOf(S) == CHOOSE x \in S : \A y \in S : y <= x

MinOf(S) == CHOOSE x \in S : \A y \in S : x <= y

RECURSIVE SetToSeq(_)
SetToSeq(S) == IF S = {} THEN <<>> ELSE <<MinOf(S)>> \o SetToSeq(S \ {MinOf(S)})

SeqsUpTo(S, n) == UNION {[1..k -> S] : k \in 0..n}

Perms(S) == {f \in [1..Cardinality(S) -> S] : \A i, j \in DOMAIN f : f[i] = f[j] => i = j}

Restrict(f, S) == [x \in S |-> f[x]]

\* ----------------------------------------------------------------- errors
\* An error is a record; NoError is Go's nil.  An Aggregated error wraps the
\* ordered list of the underlying errors.
NoError == [kind |-> "nil", job |-> 0, nodes |-> {}, entries |-> <<>>]

LeafError(kind, job, nodes) == [kind |-> kind, job |-> job, nodes |-> nodes, entries |-> <<>>]

Aggregated(errs) == [kind |-> "Aggregated", job |-> 0, nodes |-> {}, entries |-> errs]

ErrorOrNil(errs) == IF errs = <<>> THEN NoError ELSE Aggregated(errs)

\* err.Error(): the text of an error, a sequence of lines.  An Aggregated error
\* prints "N errors occurred:" and then one entry per line.
ErrorText(e) ==
    IF e.kind = "Aggregated"
    THEN <<[text |-> "errors occurred", n |-> Len(e.entries), nodes |-> {}]>>
         \o [i \in 1..Len(e.entries) |->
               [text |-> e.entries[i].kind, n |-> e.entries[i].job, nodes |-> e.entries[i].nodes]]
    ELSE IF e.kind = "Cancelled"
    THEN <<[text |-> "Cancelled", n |-> Len(e.entries), nodes |-> {}]>>
         \o [i \in 1..Len(e.entries) |->
               [text |-> e.entries[i].kind, n |-> e.entries[i].job, nodes |-> e.entries[i].nodes]]
    ELSE <<[text |-> e.kind, n |-> e.job, nodes |-> e.nodes]>>

\* The error of a Sync that observed the cancellation of its context; it
\* carries the errors observed until then.
Cancelled(errs) == [kind |-> "Cancelled", job |-> 0, nodes |-> {}, entries |-> errs]

\* ------------------------------------------------------- PriorityResolver
\* deps is the dependency graph of a batch: deps[a] is the set of jobs a
\* depends on (edges a -> b, b \in deps[a]).  Only edges inside the batch count.
IntraDeps(deps, n) == deps[n] \cap DOMAIN deps

\* The node sets of the simple cycles of the graph.
Cycles(deps) ==
    {S \in SUBSET (DOMAIN deps) :
        /\ S # {}
        /\ \E f \in Perms(S) :
              \A i \in DOMAIN f : f[(i % Cardinality(S)) + 1] \in IntraDeps(deps, f[i])}

\* Whether the graph has a cycle.  A graph in which every job depends only on
\* jobs of a smaller name has none, whatever its size.
HasCycle(deps) ==
    /\ \E n \in DOMAIN deps : \E d \in IntraDeps(deps, n) : d >= n
    /\ Cycles(deps) # {}

\* The jobs that depend on a job of level.
Dependents(deps, level) == {m \in DOMAIN deps : IntraDeps(deps, m) \cap level # {}}

\* The leaves of the DAG: the jobs with no dependency inside the batch.
RootNodes(deps) == {n \in DOMAIN deps : IntraDeps(deps, n) = {}}

AssignStart(deps) == [level |-> RootNodes(deps), weight |-> MaxPriorityWeight, prio |-> << >>]

\* One level of the weight assignment: every job of the level receives the
\* weight (a job met again on a deeper level is overwritten), and the next
\* level, the dependents, will receive the weight one stride lower.
AssignLevelSkipsOverwrite(deps, st) ==
    [level  |-> Dependents(deps, st.level),
     weight |-> st.weight - PriorityWeightGap,
     prio   |-> [n \in (DOMAIN st.prio) \cup st.level |->
                    IF n \in DOMAIN st.prio THEN st.prio[n] ELSE st.weight]]

AssignLevel(deps, st) ==
    [level  |-> Dependents(deps, st.level),
     weight |-> st.weight - PriorityWeightGap,
     prio   |-> [n \in (DOMAIN st.prio) \cup st.level |->
                    IF n \in st.level THEN st.weight ELSE st.prio[n]]]

RECURSIVE AssignWeight(_, _)
AssignWeight(deps, st) ==
    IF st.level = {} THEN st.prio ELSE AssignWeight(deps, AssignLevel(deps, st))

\* The dependency graph of a list of job specs [name, deps].
DepsOf(in) ==
    [n \in {in[i].name : i \in DOMAIN in} |->
        (CHOOSE s \in Range(in) : s.name = n).deps]

\* The cycles the resolver may report on the list in ({} stands for none).
CycleChoices(in) == IF HasCycle(DepsOf(in)) THEN Cycles(DepsOf(in)) ELSE {{}}

WithPriority(in, prio) ==
    [i \in DOMAIN in |->
        [name |-> in[i].name, deps |-> in[i].deps, priority |-> prio[in[i].name]]]

\* PriorityResolver.Resolve on the job specs in: a CycleError naming the
\* nodes of the cycle cyc it found, or the same list, in input order, with the
\* priority of every spec populated.
PriorityResolveNamesOneNode(in, cyc) ==
    IF cyc # {}
    THEN [err |-> LeafError("CycleError", 0, {MinOf(cyc)}), specs |-> <<>>]
    ELSE [err   |-> NoError,
          specs |-> WithPriority(in, AssignWeight(DepsOf(in), AssignStart(DepsOf(in))))]

PriorityResolve(in, cyc) ==
    IF cyc # {}
    THEN [err |-> LeafError("CycleError", 0, cyc), specs |-> <<>>]
    ELSE [err   |-> NoError,
          specs |-> WithPriority(in, AssignWeight(DepsOf(in), AssignStart(DepsOf(in))))]

\* ----------------------------------------------------- calls and events
\* One invocation of a collaborator; ret is what ListNames returned.
Call(fn, name, ok) == [fn |-> fn, name |-> name, ok |-> ok, ret |-> {}]

\* A progress event: JobUpload{job, err}, JobRemoteDelete{name, err} or
\* JobSpecUnknownDependencyUsed{job, ref}.
Event(type, name, err) == [type |-> type, name |-> name, ref |-> 0, err |-> err]

RECURSIVE Flatten(_)
Flatten(ss) == IF ss = <<>> THEN <<>> ELSE Head(ss) \o Flatten(Tail(ss))

NamesOf(specs) == {specs[i].name : i \in DOMAIN specs}

\* SpecStore.GetAll: the stored specs, by name.
GetAll(store) == [i \in 1..Cardinality(DOMAIN store) |-> store[SetToSeq(DOMAIN store)[i]]]

\* ------------------------------------------------------------- Create
\* Service.Create: saves the spec under its name, overwriting a spec of that
\* name; fail is the error of the SpecStore's Save ("nil": none).
CreateRejectsDuplicate(store, spec, fail) ==
    IF fail # "nil" \/ spec.name \in DOMAIN store
    THEN [store |-> store,
          err |-> LeafError(IF fail # "nil" THEN fail ELSE "DuplicateName", spec.name, {})]
    ELSE [store |-> [n \in DOMAIN store \cup {spec.name} |->
                        IF n = spec.name THEN spec ELSE store[n]],
          err |-> NoError]

\* Service.GetByName: the stored spec of that name.
GetByName(store, name) ==
    IF name \in DOMAIN store
    THEN [spec |-> store[name], err |-> NoError]
    ELSE [spec |-> << >>, err |-> LeafError("NotFound", name, {})]

Create(store, spec, fail) ==
    IF fail # "nil"
    THEN [store |-> store, err |-> LeafError(fail, spec.name, {})]
    ELSE [store |-> [n \in DOMAIN store \cup {spec.name} |->
                        IF n = spec.name THEN spec ELSE store[n]],
          err |-> NoError]

\* ------------------------------------------------------------ KeepOnly
\* The stored specs KeepOnly deletes: those whose name is no name of toKeep.
ToDeleteIgnoresToKeep(store, toKeep) == SetToSeq(DOMAIN store)

ToDeleteDeletesKept(store, toKeep) == SetToSeq(NamesOf(toKeep))

ToDelete(store, toKeep) == SetToSeq(DOMAIN store \ NamesOf(toKeep))

\* Service.KeepOnly: one SpecStore.Delete per spec to delete, each followed
\* by a JobRemoteDelete event; delFails are the names whose Delete fails.
KeepOnly(store, toKeep, delFails) ==
    LET del  == ToDelete(store, toKeep)
        errOf(n) == IF n \in delFails THEN LeafError("StoreError", n, {}) ELSE NoError
    IN [store  |-> Restrict(store, DOMAIN store \ (Range(del) \ delFails)),
        calls  |-> [i \in DOMAIN del |-> Call("SpecStore.Delete", del[i], del[i] \notin delFails)],
        events |-> [i \in DOMAIN del |-> Event("JobRemoteDelete", del[i], errOf(del[i]))],
        err    |-> ErrorOrNil(SelectSeq([i \in DOMAIN del |-> errOf(del[i])],
                                        LAMBDA e : e # NoError))]

\* -------------------------------------------------- DependencyResolver
\* DependencyResolver.Resolve of one spec against the project's SpecStore:
\* fails when the spec cannot be parsed (name in parseFails), when it depends
\* on itself (a cycle) and when it uses a name the store does not know, which
\* is also notified as JobSpecUnknownDependencyUsed.
ResolveDependency(store, spec, parseFails) ==
    LET unknown == SetToSeq(spec.deps \ DOMAIN store)
    IN [spec   |-> spec,
        events |-> IF spec.name \in parseFails \/ spec.name \in spec.deps THEN <<>>
                   ELSE [i \in DOMAIN unknown |->
                           [type |-> "JobSpecUnknownDependencyUsed", name |-> spec.name,
                            ref |-> unknown[i], err |-> NoError]],
        err    |-> IF spec.name \in parseFails THEN LeafError("ResolveError", spec.name, {})
                   ELSE IF spec.name \in spec.deps
                        THEN LeafError("CycleError", spec.name, {spec.name})
                   ELSE IF unknown # <<>>
                        THEN LeafError("UnknownDependency", spec.name, Range(unknown))
                   ELSE NoError]

\* --------------------------------------------------------------- Compiler
Compile(spec) ==
    [name |-> spec.name, contents |-> [deps |-> spec.deps, priority |-> spec.priority]]

\* ------------------------------------------------------------------ Sync
UploadOutcomes == {"ok", "compileErr", "saveRetried", "saveErr"}

DeleteOutcomes == {"ok", "deleteRetried", "deleteErr"}

\* Compile and Save of one prioritized spec.  A failed Save is retried once.
Upload(spec, outcome) ==
    LET err == CASE outcome = "compileErr" -> LeafError("CompileError", spec.name, {})
                 [] outcome = "saveErr"    -> LeafError("StoreError", spec.name, {})
                 [] OTHER                  -> NoError
    IN [saved |-> outcome \in {"ok", "saveRetried"},
        calls |-> <<Call("Compiler.Compile", spec.name, outcome # "compileErr")>>
                  \o CASE outcome = "ok"          -> <<Call("ArtifactStore.Save", spec.name, TRUE)>>
                       [] outcome = "saveRetried" -> <<Call("ArtifactStore.Save", spec.name, FALSE),
                                                       Call("ArtifactStore.Save", spec.name, TRUE)>>
                       [] outcome = "saveErr"     -> <<Call("ArtifactStore.Save", spec.name, FALSE),
                                                       Call("ArtifactStore.Save", spec.name, FALSE)>>
                       [] OTHER                   -> <<>>,
        event |-> Event("JobUpload", spec.name, err),
        err   |-> err]

\* Delete of one orphan.  A failed Delete is retried once.
DeleteOrphan(name, outcome) ==
    LET err == IF outcome = "deleteErr" THEN LeafError("StoreError", name, {}) ELSE NoError
    IN [deleted |-> outcome # "deleteErr",
        calls   |-> CASE outcome = "ok" -> <<Call("ArtifactStore.Delete", name, TRUE)>>
                      [] outcome = "deleteRetried" -> <<Call("ArtifactStore.Delete", name, FALSE),
                                                        Call("ArtifactStore.Delete", name, TRUE)>>
                      [] OTHER -> <<Call("ArtifactStore.Delete", name, FALSE),
                                    Call("ArtifactStore.Delete", name, FALSE)>>,
        event   |-> Event("JobRemoteDelete", name, err),
        err     |-> err]

\* The orphans: the names ListNames returned that are no name of a current spec.
OrphansSkipsOne(listed, store) ==
    IF listed \ DOMAIN store = {} THEN <<>> ELSE Tail(SetToSeq(listed \ DOMAIN store))

OrphansOnlyFirst(listed, store) ==
    IF listed \ DOMAIN store = {} THEN <<>> ELSE <<Head(SetToSeq(listed \ DOMAIN store))>>

Orphans(listed, store) == SetToSeq(listed \ DOMAIN store)

\* What Sync returns when it stops before it opened the ArtifactStore.
SyncAborted(arts, calls, events, err) ==
    [artifacts |-> arts, calls |-> calls, events |-> events, err |-> err]

\* Steps 4 to 8 of Sync: upload every prioritized spec, then delete the orphans.
SyncUploadAbortsOnError(store, arts, specs, calls, events, in) ==
    LET ups    == [i \in DOMAIN specs |-> Upload(specs[i], in.up[specs[i].name])]
        failed == {i \in DOMAIN specs : ~ups[i].saved}
        first  == IF failed = {} THEN Len(specs) ELSE MinOf(failed)
        done   == [i \in 1..first |-> ups[i]]
        saved  == {specs[i].name : i \in {j \in 1..first : ups[j].saved}}
        arts1  == [n \in DOMAIN arts \cup saved |->
                     IF n \in saved
                     THEN Compile(CHOOSE s \in Range(specs) : s.name = n)
                     ELSE arts[n]]
    IN [artifacts |-> arts1,
        calls     |-> calls \o Flatten([i \in DOMAIN done |-> done[i].calls]),
        events    |-> events \o [i \in DOMAIN done |-> done[i].event],
        err       |-> ErrorOrNil(SelectSeq([i \in DOMAIN done |-> done[i].err],
                                           LAMBDA e : e # NoError))]

SyncUpload(store, arts, specs, calls, events, in) ==
    LET ups    == [i \in DOMAIN specs |-> Upload(specs[i], in.up[specs[i].name])]
        saved  == {specs[i].name : i \in {j \in DOMAIN specs : ups[j].saved}}
        arts1  == [n \in DOMAIN arts \cup saved |->
                     IF n \in saved
                     THEN Compile(CHOOSE s \in Range(specs) : s.name = n)
                     ELSE arts[n]]
        listed == DOMAIN arts1
        orph   == Orphans(listed, store)
        dels   == [i \in DOMAIN orph |-> DeleteOrphan(orph[i], in.del[orph[i]])]
        gone   == {orph[i] : i \in {j \in DOMAIN orph : dels[j].deleted}}
        errs   == [i \in DOMAIN ups |-> ups[i].err] \o [i \in DOMAIN dels |-> dels[i].err]
    IN [artifacts |-> Restrict(arts1, DOMAIN arts1 \ gone),
        calls     |-> calls
                      \o Flatten([i \in DOMAIN ups |-> ups[i].calls])
                      \o <<[fn |-> "ArtifactStore.ListNames", name |-> 0, ok |-> TRUE,
                            ret |-> listed]>>
                      \o Flatten([i \in DOMAIN dels |-> dels[i].calls]),
        events    |-> events
                      \o [i \in DOMAIN ups |-> ups[i].event]
                      \o [i \in DOMAIN dels |-> dels[i].event],
        err       |-> ErrorOrNil(SelectSeq(errs, LAMBDA e : e # NoError))]

\* Step 2 of Sync: Resolve for every spec, the errors batched.
ResolveAllStopsAtFirstError(store, specs, parseFails) ==
    LET all    == [i \in DOMAIN specs |-> ResolveDependency(store, specs[i], parseFails)]
        failed == {i \in DOMAIN specs : all[i].err # NoError}
    IN IF failed = {} THEN all ELSE [i \in 1..MinOf(failed) |-> all[i]]

ResolveAll(store, specs, parseFails) ==
    [i \in DOMAIN specs |-> ResolveDependency(store, specs[i], parseFails)]

\* Step 3 of Sync and on: priority resolution, fatal when it fails.
SyncPrioritize(store, arts, resolved, calls, events, in) ==
    LET prio == PriorityResolve(resolved, in.cyc)
    IN IF prio.err # NoError
       THEN SyncAborted(arts, calls \o <<Call("PriorityResolver.Resolve", 0, FALSE)>>,
                        events, prio.err)
       ELSE SyncUpload(store, arts, prio.specs,
                       calls \o <<Call("PriorityResolver.Resolve", 0, TRUE)>>, events, in)

\* Service.Sync on the project's SpecStore and ArtifactStore, under the
\* failures in: parseFails (Resolve), cyc (the cycle reported), up (the
\* outcome of each upload) and del (the outcome of each orphan's delete).
Sync(store, arts, in) ==
    LET specs == GetAll(store)
        res   == ResolveAll(store, specs, in.parseFails)
        calls == [i \in DOMAIN res |-> Call("DependencyResolver.Resolve", res[i].spec.name,
                                            res[i].err = NoError)]
        evts  == Flatten([i \in DOMAIN res |-> res[i].events])
        errs  == SelectSeq([i \in DOMAIN res |-> res[i].err], LAMBDA e : e # NoError)
    IN IF errs # <<>>
       THEN SyncAborted(arts, calls, evts, Aggregated(errs))
       ELSE SyncPrioritize(store, arts, [i \in DOMAIN res |-> res[i].spec], calls, evts, in)

\* The failures a Sync on these stores can meet, each relevant one once.
ResolvedOk(store, parseFails) ==
    \A i \in DOMAIN GetAll(store) :
        ResolveDependency(store, GetAll(store)[i], parseFails).err = NoError

SyncInputs(store, arts) ==
    UNION {
        IF ~ResolvedOk(store, pf)
        THEN {[parseFails |-> pf, cyc |-> {}, up |-> << >>, del |-> << >>]}
        ELSE UNION {
            IF c # {}
            THEN {[parseFails |-> pf, cyc |-> c, up |-> << >>, del |-> << >>]}
            ELSE UNION {
                {[parseFails |-> pf, cyc |-> c, up |-> u, del |-> d] :
                    d \in [DOMAIN arts \ DOMAIN store -> DeleteOutcomes]} :
                u \in [DOMAIN store -> UploadOutcomes]} :
            c \in CycleChoices(GetAll(store))} :
        pf \in SUBSET DOMAIN store}

\* ------------------------------------------------------------------ Dump
\* What Dump returns: the stores as it leaves them, its calls, the compiled
\* job (nothing on an error) and the error.
DumpReturn(arts, calls, job, err) ==
    [artifacts |-> arts, calls |-> calls, job |-> job, err |-> err]

NoJob == [name |-> 0, contents |-> << >>]

\* Service.Dump of the stored spec name: Resolve for every spec of the
\* project, priority resolution of the whole project, then Compile of the
\* requested spec only.  Nothing is saved.
DumpSavesArtifact(store, arts, name, in) ==
    LET specs == GetAll(store)
        res   == ResolveAll(store, specs, in.parseFails)
        calls == [i \in DOMAIN res |-> Call("DependencyResolver.Resolve", res[i].spec.name,
                                            res[i].err = NoError)]
        prio  == PriorityResolve([i \in DOMAIN res |-> res[i].spec], in.cyc)
        job   == Compile(CHOOSE sp \in Range(prio.specs) : sp.name = name)
    IN IF \E i \in DOMAIN res : res[i].err # NoError \/ prio.err # NoError \/ in.compile # "ok"
       THEN DumpReturn(arts, calls, NoJob, LeafError("DumpError", name, {}))
       ELSE DumpReturn([n \in DOMAIN arts \cup {name} |-> IF n = name THEN job ELSE arts[n]],
                       calls \o <<Call("PriorityResolver.Resolve", 0, TRUE),
                                  Call("Compiler.Compile", name, TRUE),
                                  Call("ArtifactStore.Save", name, TRUE)>>,
                       job, NoError)

Dump(store, arts, name, in) ==
    LET specs == GetAll(store)
        res   == ResolveAll(store, specs, in.parseFails)
        calls == [i \in DOMAIN res |-> Call("DependencyResolver.Resolve", res[i].spec.name,
                                            res[i].err = NoError)]
        errs  == SelectSeq([i \in DOMAIN res |-> res[i].err], LAMBDA e : e # NoError)
        prio  == PriorityResolve([i \in DOMAIN res |-> res[i].spec], in.cyc)
        job   == Compile(CHOOSE sp \in Range(prio.specs) : sp.name = name)
    IN IF errs # <<>>
       THEN DumpReturn(arts, calls, NoJob, Aggregated(errs))
       ELSE IF prio.err # NoError
       THEN DumpReturn(arts, calls \o <<Call("PriorityResolver.Resolve", 0, FALSE)>>, NoJob,
                       prio.err)
       ELSE IF in.compile # "ok"
       THEN DumpReturn(arts, calls \o <<Call("PriorityResolver.Resolve", 0, TRUE),
                                        Call("Compiler.Compile", name, FALSE)>>,
                       NoJob, LeafError("CompileError", name, {}))
       ELSE DumpReturn(arts, calls \o <<Call("PriorityResolver.Resolve", 0, TRUE),
                                        Call("Compiler.Compile", name, TRUE)>>,
                       job, NoError)

\* The failures a Dump on this SpecStore can meet, each relevant one once.
DumpInputs(store) ==
    UNION {
        IF ~ResolvedOk(store, pf)
        THEN {[parseFails |-> pf, cyc |-> {}, compile |-> "ok"]}
        ELSE UNION {
            IF c # {}
            THEN {[parseFails |-> pf, cyc |-> c, compile |-> "ok"]}
            ELSE {[parseFails |-> pf, cyc |-> c, compile |-> k] : k \in {"ok", "compileErr"}} :
            c \in CycleChoices(GetAll(store))} :
        pf \in SUBSET DOMAIN store}

\* ------------------------------------------------- RuntimeServiceServer
Line(text, n) == [text |-> text, n |-> n, nodes |-> {}]

Status(code, message) == [code |-> code, message |-> message]

\* Event.String(), the text of an event for logs and notices.
EventString(evt) == <<[text |-> evt.type, n |-> evt.name, nodes |-> {evt.ref} \ {0}]>>

\* jobSyncObserver.Notify: the response handed to stream.Send for an event.
NotifyDropsError(evt) ==
    CASE evt.type = "JobUpload" ->
            <<[success |-> TRUE, ack |-> TRUE, jobName |-> evt.name, message |-> <<>>]>>
      [] evt.type \in {"JobRemoteDelete", "JobSpecUnknownDependencyUsed"} ->
            <<[success |-> FALSE, ack |-> FALSE, jobName |-> evt.name,
               message |-> EventString(evt)]>>
      [] OTHER -> <<>>

NotifySkipsRemoteDelete(evt) ==
    CASE evt.type = "JobUpload" ->
            <<[success |-> evt.err = NoError, ack |-> TRUE, jobName |-> evt.name,
               message |-> IF evt.err # NoError THEN ErrorText(evt.err) ELSE <<>>]>>
      [] evt.type = "JobSpecUnknownDependencyUsed" ->
            <<[success |-> FALSE, ack |-> FALSE, jobName |-> evt.name,
               message |-> EventString(evt)]>>
      [] OTHER -> <<>>

NotifyRepeatsRemoteDelete(evt) ==
    CASE evt.type = "JobUpload" ->
            <<[success |-> evt.err = NoError, ack |-> TRUE, jobName |-> evt.name,
               message |-> IF evt.err # NoError THEN ErrorText(evt.err) ELSE <<>>]>>
      [] evt.type = "JobRemoteDelete" ->
            <<[success |-> FALSE, ack |-> FALSE, jobName |-> evt.name,
               message |-> EventString(evt)],
              [success |-> FALSE, ack |-> FALSE, jobName |-> evt.name,
               message |-> EventString(evt)]>>
      [] evt.type = "JobSpecUnknownDependencyUsed" ->
            <<[success |-> FALSE, ack |-> FALSE, jobName |-> evt.name,
               message |-> EventString(evt)]>>
      [] OTHER -> <<>>

JobSyncObserverNotify(evt) ==
    CASE evt.type = "JobUpload" ->
            <<[success |-> evt.err = NoError, ack |-> TRUE, jobName |-> evt.name,
               message |-> IF evt.err # NoError THEN ErrorText(evt.err) ELSE <<>>]>>
      [] evt.type = "JobRemoteDelete" ->
            <<[success |-> FALSE, ack |-> FALSE, jobName |-> evt.name,
               message |-> EventString(evt)]>>
      [] evt.type = "JobSpecUnknownDependencyUsed" ->
            <<[success |-> FALSE, ack |-> FALSE, jobName |-> evt.name,
               message |-> EventString(evt)]>>
      [] OTHER -> <<>>

\* The stream after the observer chain was notified of the events, in order.
NotifyAll(events) == Flatten([i \in DOMAIN events |-> JobSyncObserverNotify(events[i])])

\* The loop of DeployJobSpecification over the requested jobs: adapt and
\* Create each, in request order, and stop at the first failure.  failAt is
\* the position of the job that fails (0: none) and failKind how: "adapt"
\* (FromJobProto), or the error Create returns.
CreateFailKinds == {"adapt", "ValidationError", "StoreError"}

\* (a variant that undoes the earlier Creates when one fails)
RECURSIVE CreateJobsRollsBack(_, _, _, _, _)
CreateJobsRollsBack(store, req, k, failAt, failKind) ==
    LET undone == Restrict(store, DOMAIN store \ NamesOf(SubSeq(req, 1, k - 1)))
    IN IF k > Len(req)
       THEN [store |-> store, jobsToKeep |-> req, calls |-> <<>>, status |-> Status("OK", <<>>)]
       ELSE IF k = failAt /\ failKind = "adapt"
       THEN [store |-> undone, jobsToKeep |-> SubSeq(req, 1, k - 1), calls |-> <<>>,
             status |-> Status("Internal", <<Line("adapt error", req[k].name),
                                             Line("cannot adapt job", req[k].name)>>)]
       ELSE LET c == Create(store, req[k], IF k = failAt THEN failKind ELSE "nil")
            IN IF c.err # NoError
               THEN [store |-> undone, jobsToKeep |-> SubSeq(req, 1, k - 1),
                     calls |-> <<Call("Service.Create", req[k].name, FALSE)>>,
                     status |-> Status("Internal", ErrorText(c.err)
                                                   \o <<Line("failed to save", req[k].name)>>)]
               ELSE LET rest == CreateJobsRollsBack(c.store, req, k + 1, failAt, failKind)
                    IN [rest EXCEPT !.calls = <<Call("Service.Create", req[k].name, TRUE)>> \o @]

RECURSIVE CreateJobs(_, _, _, _, _)
CreateJobs(store, req, k, failAt, failKind) ==
    IF k > Len(req) THEN [store |-> store, jobsToKeep |-> req, calls |-> <<>>, status |-> Status("OK", <<>>)]
    ELSE IF k = failAt /\ failKind = "adapt"
    THEN [store |-> store, jobsToKeep |-> SubSeq(req, 1, k - 1), calls |-> <<>>,
          status |-> Status("Internal", <<Line("adapt error", req[k].name),
                                          Line("cannot adapt job", req[k].name)>>)]
    ELSE LET c == Create(store, req[k], IF k = failAt THEN failKind ELSE "nil")
         IN IF c.err # NoError
            THEN [store |-> c.store, jobsToKeep |-> SubSeq(req, 1, k - 1),
                  calls |-> <<Call("Service.Create", req[k].name, FALSE)>>,
                  status |-> Status("Internal", ErrorText(c.err)
                                                \o <<Line("failed to save", req[k].name)>>)]
            ELSE LET rest == CreateJobs(c.store, req, k + 1, failAt, failKind)
                 IN [rest EXCEPT !.calls = <<Call("Service.Create", req[k].name, TRUE)>> \o @]

\* ------------------------------------------------------------- variables
VARIABLES
    specStore,        \* the project's SpecStore: name -> job spec
    artifactStore,    \* the project's ArtifactStore: name -> compiled job
    op,               \* the operation that ran last ("none": idle)
    request,          \* its jobs (DeployJobSpecification, Create)
    preSpecStore,     \* the SpecStore when it started
    preArtifactStore, \* the ArtifactStore when it started
    keep,             \* its KeepOnly: the arguments, the calls, the events, the error
    sync,             \* its Sync: the SpecStore enumerated, the calls, the events, the error
    calls,            \* the collaborator invocations it made, in order
    events,           \* the events it notified the observers of, in order
    stream,           \* the responses handed to stream.Send, in order
    result,           \* what it returned: the error (service) or the status (RPC)
    pIn,              \* PriorityResolver: the job specs handed to Resolve
    pDeps,            \* PriorityResolver: the dependency graph built from them
    pc,               \* PriorityResolver: start, assign, done or error
    pSt,              \* PriorityResolver: the weight assignment, level by level
    pOut,             \* PriorityResolver: what Resolve returned
    engine,           \* a deploy step by step: stage, stores, work items, errors
    observers,        \* what each observer of its chain received, and the stream
    ctx,              \* its request context
    rpc,              \* a unary RPC: the method, the request and the response
    conv,             \* a dataset adapter: the input and its conversions
    par               \* two deploys of one project running concurrently

svars == <<specStore, artifactStore, op, request, preSpecStore, preArtifactStore,
           keep, sync, calls, events, stream, result>>

\* KeepOnly and Sync as they ran inside the last operation.
NoKeepOnly ==
    [ran |-> FALSE, toKeep |-> <<>>, pre |-> << >>, post |-> << >>,
     calls |-> <<>>, events |-> <<>>, err |-> NoError]

KeepOnlyRan(toKeep, store, kept) ==
    [ran |-> TRUE, toKeep |-> toKeep, pre |-> store, post |-> kept.store,
     calls |-> kept.calls, events |-> kept.events, err |-> kept.err]

NoSync ==
    [ran |-> FALSE, store |-> << >>, calls |-> <<>>, events |-> <<>>, err |-> NoError]

SyncRan(store, synced) ==
    [ran |-> TRUE, store |-> store, calls |-> synced.calls, events |-> synced.events,
     err |-> synced.err]

SInit ==
    /\ specStore = << >>
    /\ artifactStore = << >>
    /\ op = "none"
    /\ request = <<>>
    /\ preSpecStore = << >>
    /\ preArtifactStore = << >>
    /\ keep = NoKeepOnly
    /\ sync = NoSync
    /\ calls = <<>>
    /\ events = <<>>
    /\ stream = <<>>
    /\ result = Status("OK", <<>>)

PIdle ==
    /\ pIn = <<>>
    /\ pDeps = << >>
    /\ pc = "idle"
    /\ pSt = [level |-> {}, weight |-> MaxPriorityWeight, prio |-> << >>]
    /\ pOut = [err |-> NoError, specs |-> <<>>]

pvars == <<pIn, pDeps, pc, pSt, pOut>>

tvars == <<engine, observers, ctx>>

\* No deploy is running step by step.
TIdle ==
    /\ engine = [stage |-> "idle"]
    /\ observers = [progress |-> <<>>, handed |-> <<>>, sent |-> <<>>, log |-> <<>>,
                    order |-> <<>>]
    /\ ctx = [cancelled |-> FALSE]

\* No unary RPC was called.
RIdle == rpc = [method |-> "none"]

ovars == <<rpc, conv, par>>

CIdle == conv = [stage |-> "none"]

DIdle == par = [stage |-> "none"]

OIdle == RIdle /\ CIdle /\ DIdle

\* ------------------------------------------- PriorityResolver, step by step
Nodes == 1..NumNodes

\* The batches handed to the resolver: every graph over Nodes in which no
\* job depends on itself (the DependencyResolver rejects those), listed by
\* ascending and by descending name, and one chain deep enough to use up the
\* whole weight range.
DeepChainLen == (MaxPriorityWeight \div PriorityWeightGap) + 2

Chain(len) == [i \in 1..len |-> [name |-> i, deps |-> IF i = 1 THEN {} ELSE {i - 1}]]

Orders == {[i \in Nodes |-> i], [i \in Nodes |-> NumNodes + 1 - i]}

SmallBatches ==
    {[i \in DOMAIN order |-> [name |-> order[i], deps |-> g[order[i]]]] :
        order \in Orders,
        g \in {h \in [Nodes -> SUBSET Nodes] : \A n \in Nodes : n \notin h[n]}}

PInit ==
    /\ pIn \in SmallBatches \cup {Chain(DeepChainLen)}
    /\ pDeps = << >>
    /\ pc = "start"
    /\ pSt = [level |-> {}, weight |-> MaxPriorityWeight, prio |-> << >>]
    /\ pOut = [err |-> NoError, specs |-> <<>>]
    /\ SInit
    /\ TIdle
    /\ OIdle

\* Resolve builds the graph, and fails on a cycle ...
PriorityDetectCycle ==
    /\ pc = "start"
    /\ HasCycle(DepsOf(pIn))
    /\ \E cyc \in CycleChoices(pIn) : pOut' = PriorityResolve(pIn, cyc)
    /\ pc' = "error"
    /\ UNCHANGED <<pIn, pDeps, pSt>>
    /\ UNCHANGED <<svars, tvars, ovars>>

\* ... or starts the weight assignment at the leaves,
PriorityBuild ==
    /\ pc = "start"
    /\ pDeps' = DepsOf(pIn)
    /\ ~HasCycle(pDeps')
    /\ pSt' = AssignStart(pDeps')
    /\ pc' = "assign"
    /\ UNCHANGED <<pIn, pOut>>
    /\ UNCHANGED <<svars, tvars, ovars>>

\* assigns one level after the other
PriorityAssignLevel ==
    /\ pc = "assign"
    /\ pSt.level # {}
    /\ pSt' = AssignLevel(pDeps, pSt)
    /\ UNCHANGED <<pIn, pDeps, pc, pOut>>
    /\ UNCHANGED <<svars, tvars, ovars>>

\* and returns the list in input order when no level is left.
PriorityReturn ==
    /\ pc = "assign"
    /\ pSt.level = {}
    /\ pOut' = [err |-> NoError, specs |-> WithPriority(pIn, pSt.prio)]
    /\ pc' = "done"
    /\ UNCHANGED <<pIn, pDeps, pSt>>
    /\ UNCHANGED <<svars, tvars, ovars>>

PNext == PriorityDetectCycle \/ PriorityBuild \/ PriorityAssignLevel \/ PriorityReturn

SpecPriority == PInit /\ [][PNext]_<<pvars, svars, tvars, ovars>>


\* ------------------------------------------------------------ the service
JobSpecs == [name : Names, deps : SUBSET Names]

\* The client sends the full desired set: at most MaxJobs jobs of distinct names.
Requests ==
    {r \in SeqsUpTo(JobSpecs, MaxJobs) : \A i, j \in DOMAIN r : r[i].name = r[j].name => i = j}

\* An operation ran: the stores after it and what it did.
Ran(name, req, store, arts, k, sy, cs, evts, sent, res) ==
    /\ op' = name
    /\ request' = req
    /\ preSpecStore' = specStore
    /\ preArtifactStore' = artifactStore
    /\ specStore' = store
    /\ artifactStore' = arts
    /\ keep' = k
    /\ sync' = sy
    /\ calls' = cs
    /\ events' = evts
    /\ stream' = sent
    /\ result' = res
    /\ UNCHANGED <<pvars, tvars, ovars>>

\* The status DeployJobSpecification returns after KeepOnly and Sync.
DeployStatusIgnoresKeepOnly(keepErr, syncErr) ==
    IF syncErr # NoError
    THEN Status("Internal", ErrorText(syncErr) \o <<Line("failed to sync jobs", 0)>>)
    ELSE Status("OK", <<>>)

DeployStatusOmitsErrors(keepErr, syncErr) ==
    IF keepErr # NoError
    THEN Status("Internal", <<Line("failed to delete jobs", 0)>>)
    ELSE IF syncErr # NoError
    THEN Status("Internal", <<Line("failed to sync jobs", 0)>>)
    ELSE Status("OK", <<>>)

DeployStatus(keepErr, syncErr) ==
    IF keepErr # NoError
    THEN Status("Internal", ErrorText(keepErr) \o <<Line("failed to delete jobs", 0)>>)
    ELSE IF syncErr # NoError
    THEN Status("Internal", ErrorText(syncErr) \o <<Line("failed to sync jobs", 0)>>)
    ELSE Status("OK", <<>>)

\* The jobs DeployJobSpecification hands to KeepOnly: every job it created.
JobsToKeepDropsLast(created) == SubSeq(created.jobsToKeep, 1, Len(created.jobsToKeep) - 1)

JobsToKeepNone(created) == <<>>

JobsToKeep(created) == created.jobsToKeep

\* RuntimeServiceServer.DeployJobSpecification.
DeployJobSpecification ==
    /\ op = "none"
    /\ \E req \in Requests, found \in BOOLEAN, failAt \in 0..MaxJobs, failKind \in CreateFailKinds :
        /\ failAt <= Len(req)
        /\ failAt = 0 => failKind = "adapt"
        /\ ~found => failAt = 0
        /\ IF ~found
           THEN Ran("DeployJobSpecification", req, specStore, artifactStore, NoKeepOnly, NoSync,
                    <<>>, <<>>, <<>>, Status("Internal", <<Line("project not found", 0)>>))
           ELSE LET created == CreateJobs(specStore, req, 1, failAt, failKind)
                IN IF created.status.code # "OK"
                   THEN Ran("DeployJobSpecification", req, created.store, artifactStore,
                            NoKeepOnly, NoSync, created.calls, <<>>, <<>>, created.status)
                   ELSE \E delFails \in SUBSET Range(ToDelete(created.store, JobsToKeep(created))) :
                          LET kept == KeepOnly(created.store, JobsToKeep(created), delFails)
                              k    == KeepOnlyRan(JobsToKeep(created), created.store, kept)
                          IN IF kept.err # NoError
                             THEN Ran("DeployJobSpecification", req, kept.store, artifactStore,
                                      k, NoSync, created.calls \o kept.calls, kept.events,
                                      NotifyAll(kept.events), DeployStatus(kept.err, NoError))
                             ELSE \E in \in SyncInputs(kept.store, artifactStore) :
                                    LET synced == Sync(kept.store, artifactStore, in)
                                    IN Ran("DeployJobSpecification", req, kept.store,
                                           synced.artifacts, k, SyncRan(kept.store, synced),
                                           created.calls \o kept.calls \o synced.calls,
                                           kept.events \o synced.events,
                                           NotifyAll(kept.events \o synced.events),
                                           DeployStatus(NoError, synced.err))

\* Service.Sync called on its own, with no observer.
SyncProject ==
    /\ op = "none"
    /\ \E in \in SyncInputs(specStore, artifactStore) :
        LET synced == Sync(specStore, artifactStore, in)
        IN Ran("Sync", <<>>, specStore, synced.artifacts, NoKeepOnly, SyncRan(specStore, synced),
               synced.calls, synced.events, <<>>, synced.err)

\* Service.KeepOnly called on its own, with no observer, on any list of names.
ToKeepLists == {r \in Requests : \A i \in DOMAIN r : r[i].deps = {}}

KeepOnlySpecs ==
    /\ op = "none"
    /\ \E toKeep \in ToKeepLists :
        \E delFails \in SUBSET Range(ToDelete(specStore, toKeep)) :
            LET kept == KeepOnly(specStore, toKeep, delFails)
            IN Ran("KeepOnly", <<>>, kept.store, artifactStore,
                   KeepOnlyRan(toKeep, specStore, kept), NoSync, kept.calls,
                   kept.events, <<>>, kept.err)

\* Service.KeepOnly called a second time with the same toKeep, right after a
\* call that returned no error.
KeepOnlyAgain ==
    /\ op = "KeepOnly"
    /\ keep.err = NoError
    /\ \E delFails \in SUBSET Range(ToDelete(specStore, keep.toKeep)) :
            LET kept == KeepOnly(specStore, keep.toKeep, delFails)
            IN Ran("KeepOnlyAgain", <<>>, kept.store, artifactStore,
                   [first |-> keep] @@ KeepOnlyRan(keep.toKeep, specStore, kept), NoSync,
                   kept.calls, kept.events, <<>>, kept.err)

\* The status and the response DumpJobSpecification returns.
DumpStatus(name, dumped) ==
    IF dumped.err # NoError
    THEN [code |-> "Internal",
          message |-> ErrorText(dumped.err) \o <<Line("failed to compile", name)>>,
          success |-> FALSE, content |-> << >>]
    ELSE [code |-> "OK", message |-> <<>>, success |-> TRUE, content |-> dumped.job.contents]

DumpFailed(text, n) ==
    [code |-> "Internal", message |-> <<Line(text, n)>>, success |-> FALSE, content |-> << >>]

\* RuntimeServiceServer.DumpJobSpecification.
DumpJobSpecification ==
    /\ op = "none"
    /\ \E name \in Names, found \in BOOLEAN :
        IF ~found
        THEN Ran("DumpJobSpecification", <<name>>, specStore, artifactStore, NoKeepOnly, NoSync,
                 <<>>, <<>>, <<>>, DumpFailed("project not found", 0))
        ELSE IF name \notin DOMAIN specStore
        THEN Ran("DumpJobSpecification", <<name>>, specStore, artifactStore, NoKeepOnly, NoSync,
                 <<Call("Service.GetByName", name, FALSE)>>, <<>>, <<>>,
                 DumpFailed("job not found", name))
        ELSE \E in \in DumpInputs(specStore) :
                LET dumped == Dump(specStore, artifactStore, name, in)
                IN Ran("DumpJobSpecification", <<name>>, specStore, dumped.artifacts,
                       NoKeepOnly, NoSync,
                       <<Call("Service.GetByName", name, TRUE)>> \o dumped.calls,
                       <<>>, <<>>, DumpStatus(name, dumped))

\* Service.Create called on its own.
CreateSpec ==
    /\ op = "none"
    /\ \E spec \in JobSpecs, fail \in {"nil", "ValidationError", "StoreError"} :
        LET c == Create(specStore, spec, fail)
        IN Ran("Create", <<spec>>, c.store, artifactStore, NoKeepOnly, NoSync,
               <<Call("Service.Create", spec.name, fail = "nil")>>, <<>>, <<>>, c.err)

\* The operation returned to its caller; the next one may start.
Return ==
    /\ op # "none"
    /\ op' = "none"
    /\ request' = <<>>
    /\ preSpecStore' = << >>
    /\ preArtifactStore' = << >>
    /\ keep' = NoKeepOnly
    /\ sync' = NoSync
    /\ calls' = <<>>
    /\ events' = <<>>
    /\ stream' = <<>>
    /\ result' = Status("OK", <<>>)
    /\ UNCHANGED <<specStore, artifactStore>>
    /\ UNCHANGED <<pvars, tvars, ovars>>

Next ==
    \/ DeployJobSpecification
    \/ SyncProject
    \/ KeepOnlySpecs
    \/ KeepOnlyAgain
    \/ DumpJobSpecification
    \/ CreateSpec
    \/ Return

vars == <<svars, pvars, tvars, ovars>>

Init == SInit /\ PIdle /\ TIdle /\ OIdle

Spec == Init /\ [][Next]_vars

\* ------------------------------------------------ Create and its checks
\* The job specs handed to Create, with what its validation looks at: whether
\* the name matches the identifier pattern, the schedule interval, the
\* schedule start and the task kind.
ScheduledSpecs ==
    [name : Names, deps : {{}}, nameMatches : BOOLEAN, interval : {"@daily", "never"},
     startDate : {"", "2020-12-02"}, taskKind : {"", "bq2bq"}]

\* The validation of Create.  The spec of TestService/Create has no task and
\* is saved: the task kind is not looked at.
ValidateSpec(spec) ==
    IF ~spec.nameMatches \/ spec.interval # "@daily" \/ spec.startDate = ""
    THEN "ValidationError"
    ELSE "nil"

\* Service.Create with its validation: Save is called for a spec that passes.
ServiceCreate ==
    /\ op = "none"
    /\ \E spec \in ScheduledSpecs, saveFails \in BOOLEAN :
        LET invalid == ValidateSpec(spec)
            fail    == IF invalid # "nil" THEN invalid
                       ELSE IF saveFails THEN "StoreError" ELSE "nil"
            c       == Create(specStore, spec, fail)
        IN Ran("Service.Create", <<spec>>, c.store, artifactStore, NoKeepOnly, NoSync,
               IF invalid # "nil" THEN <<>>
               ELSE <<Call("SpecStore.Save", spec.name, ~saveFails)>>,
               <<>>, <<>>, c.err)

CreateNext ==
    \/ ServiceCreate
    \/ Return

SpecCreate == Init /\ [][CreateNext]_vars

\* ------------------------------------------ a deploy, one step at a time
\* DeployJobSpecification after its Create loop: KeepOnly, then Sync, every
\* work item a step of its own, the uploads on a pool of Workers workers, the
\* observers notified one after the other, the context cancelled at any moment.

\* The observers joined into the chain, in join order: the server-wide
\* progress observer, then the jobSyncObserver of the stream.
ObserverChainStreamFirst == <<"stream", "progress">>

ObserverChain == <<"progress", "stream">>

\* The thread of the handler itself, next to the workers (named by their job).
Main == 0

\* The projects deployed: the specs the request keeps, the specs of the
\* project it dropped, and the names the ArtifactStore holds.
StepStores ==
    UNION {[S -> SUBSET Names] : S \in SUBSET Names}

StoreOf(depsOf) == [n \in DOMAIN depsOf |-> [name |-> n, deps |-> depsOf[n]]]

OldArtifact(n) == [name |-> n, contents |-> [deps |-> {}, priority |-> 0]]

StepScenarios ==
    {[kept |-> StoreOf(k), dropped |-> d, arts |-> [n \in a |-> OldArtifact(n)]] :
        k \in {f \in StepStores : \A n \in DOMAIN f : n \notin f[n]},
        d \in SUBSET Names, a \in SUBSET Names}

\* The engine when KeepOnly starts.
EngineStart(sc) ==
    LET store == [n \in DOMAIN sc.kept \cup sc.dropped |->
                    IF n \in DOMAIN sc.kept THEN sc.kept[n] ELSE [name |-> n, deps |-> {}]]
    IN [stage |-> "keeponly", store |-> store, arts |-> sc.arts,
        toKeep |-> GetAll(sc.kept), todo |-> ToDelete(store, GetAll(sc.kept)),
        working |-> {}, delivering |-> << >>, resolved |-> <<>>, prioritized |-> <<>>,
        errs |-> <<>>, keepErr |-> NoError, syncErr |-> NoError, calls |-> <<>>,
        events |-> <<>>, observed |-> FALSE, started |-> <<>>,
        result |-> Status("OK", <<>>)]

TInit ==
    /\ \E sc \in StepScenarios :
          /\ sc.dropped \cap DOMAIN sc.kept = {}
          /\ engine = EngineStart(sc)
    /\ observers = [progress |-> <<>>, handed |-> <<>>, sent |-> <<>>, log |-> <<>>,
                    order |-> <<>>]
    /\ ctx = [cancelled |-> FALSE]
    /\ SInit
    /\ PIdle
    /\ OIdle

\* The thread task emitted the events evts and now notifies the chain of them.
Emitting(e, task, evts) ==
    [e EXCEPT !.events = @ \o evts,
              !.delivering =
                  IF evts = <<>> THEN @
                  ELSE (task :> [queue |-> [i \in 1..Len(evts) |-> Len(e.events) + i],
                                 at |-> 0]) @@ @]

WithError(e, err) == IF err = NoError THEN e ELSE [e EXCEPT !.errs = Append(@, err)]

Started(e, stage, n) == [e EXCEPT !.started = Append(@, [stage |-> stage, name |-> n])]

MainFree == Main \notin DOMAIN engine.delivering

\* The deploy returns: the status of the RPC.
Returning(e, keepErr, syncErr) ==
    [e EXCEPT !.stage = "done", !.keepErr = keepErr, !.syncErr = syncErr,
              !.result = DeployStatus(keepErr, syncErr)]

\* What a failed stream.Send does to the engine: nothing, the error is logged.
SendFailedStopsEngine(e) ==
    [e EXCEPT !.todo = <<>>, !.errs = Append(@, LeafError("SendError", 0, {}))]

SendFailed(e) == e

\* ObserverChain.Notify, one observer per step: task hands the event at the
\* head of its queue to the next observer of the chain.
Deliver(task) ==
    /\ task \in DOMAIN engine.delivering
    /\ LET d    == engine.delivering[task]
           id   == Head(d.queue)
           to   == ObserverChain[d.at + 1]
           resp == JobSyncObserverNotify(engine.events[id])
           left == IF d.at + 1 < Len(ObserverChain)
                   THEN [engine.delivering EXCEPT ![task].at = d.at + 1]
                   ELSE IF Len(d.queue) > 1
                   THEN [engine.delivering EXCEPT ![task] = [queue |-> Tail(d.queue), at |-> 0]]
                   ELSE Restrict(engine.delivering, DOMAIN engine.delivering \ {task})
           e1   == [engine EXCEPT !.delivering = left]
       IN IF to = "progress"
          THEN /\ observers' = [observers EXCEPT !.progress = Append(@, id),
                                                 !.order = Append(@, [evt |-> id, to |-> to])]
               /\ engine' = e1
          ELSE \E sendOk \in BOOLEAN :
                /\ observers' =
                      [observers EXCEPT
                          !.handed = @ \o [i \in DOMAIN resp |-> [evt |-> id, resp |-> resp[i]]],
                          !.sent = IF sendOk THEN @ \o resp ELSE @,
                          !.log = IF sendOk \/ resp = <<>> THEN @ ELSE Append(@, id),
                          !.order = Append(@, [evt |-> id, to |-> to])]
                /\ engine' = IF sendOk \/ resp = <<>> THEN e1 ELSE SendFailed(e1)
    /\ UNCHANGED <<ctx, svars, pvars, ovars>>

\* KeepOnly: the Delete of the next spec that is not to keep.
KeepOnlyDelete ==
    /\ engine.stage = "keeponly"
    /\ MainFree
    /\ engine.todo # <<>>
    /\ \E ok \in BOOLEAN :
        LET n   == Head(engine.todo)
            err == IF ok THEN NoError ELSE LeafError("StoreError", n, {})
            e1  == [engine EXCEPT !.todo = Tail(@),
                                  !.store = IF ok THEN Restrict(@, DOMAIN @ \ {n}) ELSE @,
                                  !.calls = Append(@, Call("SpecStore.Delete", n, ok))]
        IN engine' = Emitting(WithError(Started(e1, "keeponly", n), err), Main,
                              <<Event("JobRemoteDelete", n, err)>>)
    /\ UNCHANGED <<observers, ctx, svars, pvars, ovars>>

\* KeepOnly returns: its error ends the RPC, else Sync starts and enumerates.
KeepOnlyReturn ==
    /\ engine.stage = "keeponly"
    /\ MainFree
    /\ engine.todo = <<>>
    /\ engine' = IF engine.errs # <<>>
                 THEN Returning(engine, Aggregated(engine.errs), NoError)
                 ELSE [engine EXCEPT !.stage = "resolve",
                                     !.todo = SetToSeq(DOMAIN engine.store)]
    /\ UNCHANGED <<observers, ctx, svars, pvars, ovars>>

\* What Sync does when it finds its context cancelled: it starts nothing more
\* and waits for the work in flight.
Observe(e) == [e EXCEPT !.observed = TRUE, !.todo = <<>>, !.stage = "drain"]

\* Sync, step 2: Resolve of the next spec.
SyncResolveNext ==
    /\ engine.stage = "resolve"
    /\ MainFree
    /\ engine.todo # <<>>
    /\ IF ctx.cancelled
       THEN engine' = Observe(engine)
       ELSE \E fails \in BOOLEAN :
              LET n  == Head(engine.todo)
                  r  == ResolveDependency(engine.store, engine.store[n],
                                          IF fails THEN {n} ELSE {})
                  e1 == [engine EXCEPT
                            !.todo = Tail(@),
                            !.resolved = Append(@, r.spec),
                            !.calls = Append(@, Call("DependencyResolver.Resolve", n,
                                                     r.err = NoError))]
              IN engine' = Emitting(WithError(Started(e1, "resolve", n), r.err), Main, r.events)
    /\ UNCHANGED <<observers, ctx, svars, pvars, ovars>>

\* The jobs Sync hands to its workers: one task per prioritized spec.
UploadTasksTwice(specs) ==
    [i \in DOMAIN specs |-> specs[i].name] \o [i \in DOMAIN specs |-> specs[i].name]

UploadTasks(specs) == [i \in DOMAIN specs |-> specs[i].name]

\* Sync, steps 2 to 4: the batched resolve errors are fatal; else priority
\* resolution, fatal when it fails, and the uploads are queued.
SyncPriority ==
    /\ engine.stage = "resolve"
    /\ MainFree
    /\ engine.todo = <<>>
    /\ IF engine.errs # <<>>
       THEN engine' = Returning(engine, NoError, Aggregated(engine.errs))
       ELSE IF ctx.cancelled
       THEN engine' = Observe(engine)
       ELSE \E cyc \in CycleChoices(engine.resolved) :
              LET prio == PriorityResolve(engine.resolved, cyc)
                  e1   == [engine EXCEPT
                              !.calls = Append(@, Call("PriorityResolver.Resolve", 0,
                                                       prio.err = NoError))]
              IN engine' = IF prio.err # NoError
                           THEN Returning(e1, NoError, prio.err)
                           ELSE [e1 EXCEPT !.stage = "upload",
                                           !.prioritized = prio.specs,
                                           !.todo = UploadTasks(prio.specs)]
    /\ UNCHANGED <<observers, ctx, svars, pvars, ovars>>

\* The workers that hold a task: compiling, saving or notifying.
Busy == engine.working \cup (DOMAIN engine.delivering \ {Main})

\* Sync, step 5: a free worker takes the next job.
UploadStart ==
    /\ engine.stage = "upload"
    /\ engine.todo # <<>>
    /\ Cardinality(Busy) < Workers
    /\ engine' = IF ctx.cancelled
                 THEN Observe(engine)
                 ELSE [Started(engine, "upload", Head(engine.todo))
                          EXCEPT !.todo = Tail(@), !.working = @ \cup {Head(engine.todo)}]
    /\ UNCHANGED <<observers, ctx, svars, pvars, ovars>>

\* Sync, step 5: a worker compiled and saved its job (or failed to).
UploadFinish ==
    /\ \E n \in engine.working, outcome \in UploadOutcomes :
        LET spec == CHOOSE sp \in Range(engine.prioritized) : sp.name = n
            u    == Upload(spec, outcome)
            e1   == [engine EXCEPT
                        !.working = @ \ {n},
                        !.calls = @ \o u.calls,
                        !.arts = IF u.saved
                                 THEN [m \in DOMAIN @ \cup {n} |->
                                          IF m = n THEN Compile(spec) ELSE @[m]]
                                 ELSE @]
        IN engine' = Emitting(WithError(e1, u.err), n, <<u.event>>)
    /\ UNCHANGED <<observers, ctx, svars, pvars, ovars>>

\* Sync, step 6: every upload is over; ListNames, and the orphans are queued.
SyncListNames ==
    /\ engine.stage = "upload"
    /\ engine.todo = <<>>
    /\ Busy = {}
    /\ engine' = IF ctx.cancelled
                 THEN Observe(engine)
                 ELSE [engine EXCEPT
                          !.stage = "delete",
                          !.calls = Append(@, [fn |-> "ArtifactStore.ListNames", name |-> 0,
                                               ok |-> TRUE, ret |-> DOMAIN engine.arts]),
                          !.todo = Orphans(DOMAIN engine.arts, engine.store)]
    /\ UNCHANGED <<observers, ctx, svars, pvars, ovars>>

\* Sync, step 6: the Delete of the next orphan.
SyncDeleteNext ==
    /\ engine.stage = "delete"
    /\ MainFree
    /\ engine.todo # <<>>
    /\ IF ctx.cancelled
       THEN engine' = Observe(engine)
       ELSE \E outcome \in DeleteOutcomes :
              LET n  == Head(engine.todo)
                  d  == DeleteOrphan(n, outcome)
                  e1 == [engine EXCEPT
                            !.todo = Tail(@),
                            !.calls = @ \o d.calls,
                            !.arts = IF d.deleted THEN Restrict(@, DOMAIN @ \ {n}) ELSE @]
              IN engine' = Emitting(WithError(Started(e1, "delete", n), d.err), Main, <<d.event>>)
    /\ UNCHANGED <<observers, ctx, svars, pvars, ovars>>

\* Sync, step 8: it returns the aggregated errors, and the RPC ends.
SyncReturn ==
    /\ engine.stage = "delete"
    /\ MainFree
    /\ engine.todo = <<>>
    /\ engine' = Returning(engine, NoError, ErrorOrNil(engine.errs))
    /\ UNCHANGED <<observers, ctx, svars, pvars, ovars>>

\* The error of a Sync that stopped on a cancelled context.
CancelledAsAggregate(errs) == ErrorOrNil(errs)

SyncCancelled(errs) == Cancelled(errs)

\* A cancelled Sync returns when nothing is in flight any more.
SyncDrained ==
    /\ engine.stage = "drain"
    /\ Busy = {}
    /\ MainFree
    /\ engine' = Returning(engine, NoError, SyncCancelled(engine.errs))
    /\ UNCHANGED <<observers, ctx, svars, pvars, ovars>>

\* The client cancels the request, or its deadline passes.
Cancel ==
    /\ engine.stage \notin {"idle", "done"}
    /\ ~ctx.cancelled
    /\ ctx' = [ctx EXCEPT !.cancelled = TRUE]
    /\ UNCHANGED <<engine, observers, svars, pvars, ovars>>

TNext ==
    \/ \E task \in {Main} \cup Names : Deliver(task)
    \/ KeepOnlyDelete
    \/ KeepOnlyReturn
    \/ SyncResolveNext
    \/ SyncPriority
    \/ UploadStart
    \/ UploadFinish
    \/ SyncListNames
    \/ SyncDeleteNext
    \/ SyncReturn
    \/ SyncDrained
    \/ Cancel

SpecSteps == TInit /\ [][TNext]_vars

\* ------------------------------------------------- two deploys at once
\* Two DeployJobSpecification calls of one project, each on a goroutine of its
\* own.  The handler holds no lock and the stores are shared: every access of
\* a call to the SpecStore or the ArtifactStore is a step, and the steps of
\* the two calls interleave freely.  No store access fails here.
Callers == {1, 2}

\* The jobs of a request: none depends on itself.
ConcurrentRequests ==
    {r \in Requests : r # <<>> /\ \A i \in DOMAIN r : r[i].name \notin r[i].deps}

\* The project before the calls: empty, or one job deployed earlier.
ConcurrentStores ==
    {[specs |-> StoreOf([n \in S |-> {}]), arts |-> [n \in S |-> OldArtifact(n)]] :
        S \in {T \in SUBSET Names : Cardinality(T) <= 1}}

CallStart(req) ==
    [req |-> req, pc |-> "create", k |-> 1, todo |-> <<>>, snap |-> << >>, specs |-> <<>>,
     code |-> "none"]

CallDone(call, code) == [call EXCEPT !.pc = "done", !.code = code]

DInit ==
    /\ \E st \in ConcurrentStores :
          /\ specStore = st.specs
          /\ artifactStore = st.arts
    /\ \E r1, r2 \in ConcurrentRequests :
          par = [stage |-> "run", call |-> <<CallStart(r1), CallStart(r2)>>]
    /\ op = "none"
    /\ request = <<>>
    /\ preSpecStore = << >>
    /\ preArtifactStore = << >>
    /\ keep = NoKeepOnly
    /\ sync = NoSync
    /\ calls = <<>>
    /\ events = <<>>
    /\ stream = <<>>
    /\ result = Status("none", <<>>)
    /\ PIdle /\ TIdle /\ RIdle /\ CIdle

\* What a step of a call leaves alone.
CallFrame ==
    UNCHANGED <<op, request, preSpecStore, preArtifactStore, keep, sync, calls, events,
                stream, result, pvars, tvars, rpc, conv>>

At(c, stage) == par.stage = "run" /\ par.call[c].pc = stage

\* The Create of the next job of the request; KeepOnly follows the last.
DeployCreate(c) ==
    /\ At(c, "create")
    /\ LET call == par.call[c]
       IN /\ specStore' = Create(specStore, call.req[call.k], "nil").store
          /\ par' = [par EXCEPT !.call[c] =
                        IF call.k = Len(call.req)
                        THEN [call EXCEPT !.pc = "keepOnly", !.k = 1]
                        ELSE [call EXCEPT !.k = @ + 1]]
    /\ UNCHANGED artifactStore
    /\ CallFrame

\* KeepOnly reads the SpecStore and finds the specs to delete.
DeployKeepOnly(c) ==
    /\ At(c, "keepOnly")
    /\ LET call == par.call[c]
           del  == ToDelete(specStore, call.req)
       IN par' = [par EXCEPT !.call[c] =
                     [call EXCEPT !.pc = IF del = <<>> THEN "sync" ELSE "delete", !.todo = del]]
    /\ UNCHANGED <<specStore, artifactStore>>
    /\ CallFrame

\* KeepOnly deletes the next of them; Sync follows the last.
DeployKeepOnlyDelete(c) ==
    /\ At(c, "delete")
    /\ LET call == par.call[c]
       IN /\ specStore' = Restrict(specStore, DOMAIN specStore \ {Head(call.todo)})
          /\ par' = [par EXCEPT !.call[c] =
                        [call EXCEPT !.pc = IF Len(call.todo) = 1 THEN "sync" ELSE "delete",
                                     !.todo = Tail(@)]]
    /\ UNCHANGED artifactStore
    /\ CallFrame

\* Sync reads the specs of the project, resolves their dependencies and their
\* priorities; an error of either ends the call with status Internal.
DeploySync(c) ==
    /\ At(c, "sync")
    /\ LET call  == par.call[c]
           specs == GetAll(specStore)
           res   == ResolveAll(specStore, specs, {})
           ok    == \A i \in DOMAIN res : res[i].err = NoError
       IN IF ~ok
          THEN par' = [par EXCEPT !.call[c] = CallDone(call, "Internal")]
          ELSE \E cyc \in CycleChoices(specs) :
                  LET prio == PriorityResolve(specs, cyc)
                  IN par' = [par EXCEPT !.call[c] =
                                IF prio.err # NoError
                                THEN CallDone(call, "Internal")
                                ELSE [call EXCEPT !.pc = IF specs = <<>> THEN "listNames"
                                                         ELSE "upload",
                                                  !.k = 1, !.snap = specStore,
                                                  !.specs = prio.specs]]
    /\ UNCHANGED <<specStore, artifactStore>>
    /\ CallFrame

\* Sync compiles the next spec it read and saves the artifact.
DeployUpload(c) ==
    /\ At(c, "upload")
    /\ LET call == par.call[c]
           job  == Compile(call.specs[call.k])
       IN /\ artifactStore' = [n \in DOMAIN artifactStore \cup {job.name} |->
                                  IF n = job.name THEN job ELSE artifactStore[n]]
          /\ par' = [par EXCEPT !.call[c] =
                        IF call.k = Len(call.specs)
                        THEN [call EXCEPT !.pc = "listNames"]
                        ELSE [call EXCEPT !.k = @ + 1]]
    /\ UNCHANGED specStore
    /\ CallFrame

\* Sync lists the names of the ArtifactStore and finds the orphans: the names
\* of no spec it read.  With none the call returns.
DeployListNames(c) ==
    /\ At(c, "listNames")
    /\ LET call == par.call[c]
           orph == Orphans(DOMAIN artifactStore, call.snap)
       IN par' = [par EXCEPT !.call[c] =
                     IF orph = <<>> THEN CallDone(call, "OK")
                     ELSE [call EXCEPT !.pc = "deleteOrphan", !.todo = orph]]
    /\ UNCHANGED <<specStore, artifactStore>>
    /\ CallFrame

\* Sync deletes the next orphan; the call returns after the last.
DeployDeleteOrphan(c) ==
    /\ At(c, "deleteOrphan")
    /\ LET call == par.call[c]
       IN /\ artifactStore' = Restrict(artifactStore, DOMAIN artifactStore \ {Head(call.todo)})
          /\ par' = [par EXCEPT !.call[c] =
                        IF Len(call.todo) = 1 THEN CallDone(call, "OK")
                        ELSE [call EXCEPT !.todo = Tail(@)]]
    /\ UNCHANGED specStore
    /\ CallFrame

DNext ==
    \E c \in Callers :
        \/ DeployCreate(c)
        \/ DeployKeepOnly(c)
        \/ DeployKeepOnlyDelete(c)
        \/ DeploySync(c)
        \/ DeployUpload(c)
        \/ DeployListNames(c)
        \/ DeployDeleteOrphan(c)

SpecConcurrent == DInit /\ [][DNext]_vars

\* ------------------------------------------------------------ unary RPCs
\* The scheduled times a request carries, when its timestamp is a valid one.
Times == 1..MaxTime

\* req.GetScheduledAt(): absent, outside the range ptypes.Timestamp accepts,
\* or a valid time.
Timestamps ==
    {[kind |-> k, t |-> 0] : k \in {"nil", "outOfRange"}}
        \cup {[kind |-> "valid", t |-> t] : t \in Times}

\* A window parameter as sent: empty, well-formed, or not parseable.
WindowParams == {"", "24h", "x"}

GetWindowRequests ==
    [scheduledAt : Timestamps, size : WindowParams, offset : WindowParams,
     truncateTo : WindowParams, convertFails : BOOLEAN]

\* prepareWindow: the window of the three parameters, or a parse error.
PrepareWindow(size, offset, truncateTo) ==
    IF "x" \in {size, offset, truncateTo}
    THEN [err |-> TRUE, window |-> <<>>]
    ELSE [err |-> FALSE, window |-> <<size, offset, truncateTo>>]

NoWindow == [start |-> <<>>, end |-> <<>>]

RpcReturn(code, text, prepared, window) ==
    [code |-> code, message |-> text, prepared |-> prepared, window |-> window]

\* RuntimeServiceServer.GetWindow.  When a timestamp of the window cannot be
\* converted the handler formats the nil error of prepareWindow and panics.
GetWindowResponse(req) ==
    IF req.scheduledAt.kind # "valid"
    THEN RpcReturn("Internal", "failed to parse schedule time", FALSE, NoWindow)
    ELSE IF req.size = "" \/ req.offset = "" \/ req.truncateTo = ""
    THEN RpcReturn("FailedPrecondition",
                   "window size, offset and truncate_to must be provided", FALSE, NoWindow)
    ELSE LET w == PrepareWindow(req.size, req.offset, req.truncateTo)
         IN IF w.err
            THEN RpcReturn("Internal", "window", TRUE, NoWindow)
            ELSE IF req.convertFails
            THEN RpcReturn("Panic", "nil error", TRUE, NoWindow)
            ELSE RpcReturn("OK", "", TRUE,
                           [start |-> <<"start", w.window, req.scheduledAt.t>>,
                            end |-> <<"end", w.window, req.scheduledAt.t>>])

\* The value of a secret on the wire, in units: a base-64 quantum ("QUJD",
\* which decodes to "ABC"), a line break ("LF"), which the decoder of
\* base64.StdEncoding skips, and a character outside the alphabet ("*").
Base64Units == {"QUJD", "LF", "*"}

SecretValues == SeqsUpTo(Base64Units, MaxValueLen)

\* base64.StdEncoding.DecodeString.
DecodeString(value) ==
    IF "*" \in Range(value)
    THEN [err |-> TRUE, bytes |-> <<>>]
    ELSE [err |-> FALSE,
          bytes |-> [i \in DOMAIN SelectSeq(value, LAMBDA u : u = "QUJD") |-> "ABC"]]

RegisterSecretRequests ==
    [projectFound : BOOLEAN, secretName : {"secret"}, value : SecretValues,
     saveFails : BOOLEAN]

SecretReturn(code, text, saves) ==
    [code |-> code, message |-> text, success |-> code = "OK", saves |-> saves]

\* RuntimeServiceServer.RegisterSecret; saves are the items it passed to the
\* secret store's Save.
RegisterSecretResponse(req) ==
    IF req.value = <<>>
    THEN SecretReturn("Internal", "empty value for secret", <<>>)
    ELSE LET base64Decoded == DecodeString(req.value)
             item == [name |-> req.secretName, value |-> base64Decoded.bytes]
         IN IF base64Decoded.err
            THEN SecretReturn("Internal", "failed to decode base64 string", <<>>)
            ELSE IF ~req.projectFound
            THEN SecretReturn("Internal", "project not found", <<>>)
            ELSE IF req.saveFails
            THEN SecretReturn("Internal", "failed to save secret", <<item>>)
            ELSE SecretReturn("OK", "", <<item>>)

RegisterInstanceRequests ==
    [scheduledAt : Timestamps, projectFound : BOOLEAN, jobFound : BOOLEAN,
     adaptFails : BOOLEAN, registerFails : BOOLEAN, adaptInstanceFails : BOOLEAN]

\* status.Error(codes.Internal, fmt.Sprintf("%s: <text>", err.Error())): the
\* message is the text of the error cause, then the handler's own words.
InternalError(cause, text) ==
    [code |-> "Internal", cause |-> cause, message |-> <<cause, text>>]

\* RuntimeServiceServer.RegisterInstance.
RegisterInstanceResponse(req) ==
    IF req.scheduledAt.kind # "valid"
    THEN InternalError("timestamp", "failed to parse schedule time of job")
    ELSE IF ~req.projectFound
    THEN InternalError("project", "project not found")
    ELSE IF ~req.jobFound
    THEN InternalError("job", "job not found")
    ELSE IF req.adaptFails
    THEN InternalError("adapt", "cannot adapt job")
    ELSE IF req.registerFails
    THEN InternalError("register", "failed to register instance of job")
    ELSE IF req.adaptInstanceFails
    THEN InternalError("adaptInstance", "cannot adapt instance for job")
    ELSE [code |-> "OK", cause |-> "nil", message |-> <<>>]

\* The resources of a DeployResourceSpecification request, each with whether
\* FromResourceProto fails on it and whether the datastore driver does.
ResourceProtos == [name : Names, adaptFails : BOOLEAN, driverFails : BOOLEAN]

DeployResourceRequests ==
    [projectFound : BOOLEAN, resources : SeqsUpTo(ResourceProtos, MaxResources)]

\* The resource service's UpdateResource on a batch: the driver is called for
\* every spec, each call emits a ResourceUpdated event with its error, and
\* the errors are returned together.
UpdateResourceStopsAtError(specs) ==
    LET failed == {i \in DOMAIN specs : specs[i].driverFails}
        upTo   == IF failed = {} THEN Len(specs) ELSE MinOf(failed)
        errOf(i) == IF specs[i].driverFails THEN LeafError("DriverError", specs[i].name, {})
                    ELSE NoError
    IN [calls  |-> [i \in 1..upTo |-> Call("Datastore.UpdateResource", specs[i].name,
                                             ~specs[i].driverFails)],
        events |-> [i \in 1..upTo |-> Event("ResourceUpdated", specs[i].name, errOf(i))],
        err    |-> ErrorOrNil(SelectSeq([i \in 1..upTo |-> errOf(i)],
                                        LAMBDA e : e # NoError))]

UpdateResource(specs) ==
    LET errOf(i) == IF specs[i].driverFails THEN LeafError("DriverError", specs[i].name, {})
                    ELSE NoError
    IN [calls  |-> [i \in DOMAIN specs |-> Call("Datastore.UpdateResource", specs[i].name,
                                                 ~specs[i].driverFails)],
        events |-> [i \in DOMAIN specs |-> Event("ResourceUpdated", specs[i].name, errOf(i))],
        err    |-> ErrorOrNil(SelectSeq([i \in DOMAIN specs |-> errOf(i)],
                                        LAMBDA e : e # NoError))]

\* resourceObserver.Notify: the response handed to stream.Send for an event.
ResourceNotifyAlwaysSuccess(evt) ==
    IF evt.type = "ResourceUpdated"
    THEN <<[success |-> TRUE, ack |-> TRUE, resourceName |-> evt.name,
            message |-> IF evt.err # NoError THEN ErrorText(evt.err) ELSE <<>>]>>
    ELSE <<>>

ResourceObserverNotify(evt) ==
    IF evt.type = "ResourceUpdated"
    THEN <<[success |-> evt.err = NoError, ack |-> TRUE, resourceName |-> evt.name,
            message |-> IF evt.err # NoError THEN ErrorText(evt.err) ELSE <<>>]>>
    ELSE <<>>

ResourceReturn(code, message, updated, sent, err) ==
    [code |-> code, message |-> message, updated |-> updated, stream |-> sent, err |-> err]

NotUpdated == [calls |-> <<>>, events |-> <<>>, err |-> NoError]

\* RuntimeServiceServer.DeployResourceSpecification.
DeployResourceResponse(req) ==
    LET unadapted == {i \in DOMAIN req.resources : req.resources[i].adaptFails}
    IN IF ~req.projectFound
       THEN ResourceReturn("Internal", <<Line("project not found", 0)>>, NotUpdated, <<>>, NoError)
       ELSE IF unadapted # {}
       THEN ResourceReturn("Internal",
                <<Line("cannot adapt resource", req.resources[MinOf(unadapted)].name)>>,
                NotUpdated, <<>>, NoError)
       ELSE LET updated == UpdateResource(req.resources)
                sent    == Flatten([i \in DOMAIN updated.events |->
                                       ResourceObserverNotify(updated.events[i])])
            IN IF updated.err # NoError
               THEN ResourceReturn("Internal",
                        <<Line("failed to update resources:", 0)>> \o ErrorText(updated.err),
                        updated, sent, updated.err)
               ELSE ResourceReturn("OK", <<>>, updated, sent, NoError)

RInit ==
    /\ \/ \E req \in DeployResourceRequests :
             rpc = [method |-> "DeployResourceSpecification", req |-> req,
                    returned |-> FALSE,
                    resp |-> ResourceReturn("", <<>>, NotUpdated, <<>>, NoError)]
       \/ \E req \in RegisterInstanceRequests :
             rpc = [method |-> "RegisterInstance", req |-> req, returned |-> FALSE,
                    resp |-> [code |-> "", cause |-> "nil", message |-> <<>>]]
       \/ \E req \in GetWindowRequests :
             rpc = [method |-> "GetWindow", req |-> req, returned |-> FALSE,
                    resp |-> RpcReturn("", "", FALSE, NoWindow)]
       \/ \E req \in RegisterSecretRequests :
             rpc = [method |-> "RegisterSecret", req |-> req, returned |-> FALSE,
                    resp |-> SecretReturn("", "", <<>>)]
    /\ SInit
    /\ PIdle
    /\ TIdle
    /\ CIdle
    /\ DIdle

GetWindow ==
    /\ rpc.method = "GetWindow"
    /\ ~rpc.returned
    /\ rpc' = [rpc EXCEPT !.returned = TRUE, !.resp = GetWindowResponse(rpc.req)]
    /\ UNCHANGED <<svars, pvars, tvars, conv, par>>

RegisterSecret ==
    /\ rpc.method = "RegisterSecret"
    /\ ~rpc.returned
    /\ rpc' = [rpc EXCEPT !.returned = TRUE, !.resp = RegisterSecretResponse(rpc.req)]
    /\ UNCHANGED <<svars, pvars, tvars, conv, par>>

RegisterInstance ==
    /\ rpc.method = "RegisterInstance"
    /\ ~rpc.returned
    /\ rpc' = [rpc EXCEPT !.returned = TRUE, !.resp = RegisterInstanceResponse(rpc.req)]
    /\ UNCHANGED <<svars, pvars, tvars, conv, par>>

DeployResourceSpecification ==
    /\ rpc.method = "DeployResourceSpecification"
    /\ ~rpc.returned
    /\ rpc' = [rpc EXCEPT !.returned = TRUE, !.resp = DeployResourceResponse(rpc.req)]
    /\ UNCHANGED <<svars, pvars, tvars, conv, par>>

RNext ==
    \/ DeployResourceSpecification
    \/ GetWindow
    \/ RegisterInstance
    \/ RegisterSecret

SpecRpc == RInit /\ [][RNext]_vars

\* ------------------------------------------------- the dataset adapter
\* datasetSpecHandler of the BigQuery datastore: ToYaml, FromYaml, ToProtobuf
\* and FromProtobuf.

\* A resource name, character by character: a word character, a hyphen or a
\* dot.
NameChars == {"a", "-", "."}

ResourceNames == SeqsUpTo(NameChars, MaxNameLen)

\* datasetNameParseRegex.FindStringSubmatch: ^([\w-]+)\.(\w+)$ matches a name
\* with one dot, word characters and hyphens before it, word characters after
\* it, and no empty side; the submatches are the name and its two sides.
FindStringSubmatch(name) ==
    LET dots == {i \in DOMAIN name : name[i] = "."}
    IN IF Cardinality(dots) # 1 THEN <<>>
       ELSE LET d       == CHOOSE i \in dots : TRUE
                project == SubSeq(name, 1, d - 1)
                dataset == SubSeq(name, d + 1, Len(name))
            IN IF project = <<>> \/ dataset = <<>> \/ "-" \in Range(dataset)
               THEN <<>>
               ELSE <<name, project, dataset>>

\* A Go int of 64 bits, as hi * 2^32 + lo with lo the low 32 bits.
Versions == [hi : {0, 1}, lo : 0..MaxVersion]

\* int32(v) keeps the low 32 bits; int(x) widens them again.
Int32(v) == v.lo

IntOfInt32(x) == [hi |-> 0, lo |-> x]

\* An int64, as hi * 2^53 + lo with lo below 2^53.
Expirations == [hi : {0, 1}, lo : 0..MaxExpiration]

ZeroExpiration == [hi |-> 0, lo |-> 0]

\* float64(v), the number of a structpb value: exact below 2^53; from 2^53 to
\* 2^54 only the even integers exist and an odd one is rounded to the
\* neighbour whose mantissa is even.
Float64(v) ==
    IF v.hi = 0 \/ v.lo % 2 = 0 THEN v
    ELSE IF (v.lo - 1) % 4 = 0 THEN [v EXCEPT !.lo = v.lo - 1]
    ELSE [v EXCEPT !.lo = v.lo + 1]

\* int64(f) of a number that holds an integer of the range.
Int64(f) == f

StringMaps == {<< >>, [k \in {"key"} |-> "value"]}

BQDatasetMetadatas ==
    [description : {"", "text"}, tableExpiration : Expirations, location : {"", "US"}]

\* The well-formed dataset resources: the name parses and the spec is the
\* BQDataset of that project and dataset.
Resources ==
    {[version |-> v, name |-> n, type |-> "dataset", datastore |-> "bigquery",
      spec |-> [project |-> FindStringSubmatch(n)[2], dataset |-> FindStringSubmatch(n)[3],
                metadata |-> m],
      assets |-> a, labels |-> l] :
        v \in Versions, n \in {x \in ResourceNames : FindStringSubmatch(x) # <<>>},
        m \in BQDatasetMetadatas, a \in StringMaps, l \in StringMaps}

NoResource ==
    [version |-> [hi |-> 0, lo |-> 0], name |-> <<>>, type |-> "", datastore |-> "",
     spec |-> << >>, assets |-> << >>, labels |-> << >>]

\* The keys of the spec sub-object, in YAML and in the structured map; a key
\* tagged omitempty is left out when its value is the zero value.
SpecKeys(meta) ==
    {k \in {"description", "table_expiration", "location"} :
        CASE k = "description"      -> meta.description # ""
          [] k = "table_expiration" -> meta.tableExpiration # ZeroExpiration
          [] k = "location"         -> meta.location # ""}

SpecValue(meta, k) ==
    CASE k = "description"      -> meta.description
      [] k = "table_expiration" -> meta.tableExpiration
      [] k = "location"         -> meta.location

\* datasetSpecHandler.ToYaml: the document of a DatasetResourceSpec, key by
\* key.
ToYaml(r) ==
    [err |-> FALSE,
     doc |-> [version |-> r.version, name |-> r.name, type |-> r.type,
              spec |-> [k \in SpecKeys(r.spec.metadata) |-> SpecValue(r.spec.metadata, k)],
              labels |-> r.labels]]

\* yaml.Unmarshal into a BQDatasetMetadata: a key that is absent leaves the
\* zero value.
MetadataOf(spec) ==
    [description     |-> IF "description" \in DOMAIN spec THEN spec["description"] ELSE "",
     tableExpiration |-> IF "table_expiration" \in DOMAIN spec
                         THEN spec["table_expiration"] ELSE ZeroExpiration,
     location        |-> IF "location" \in DOMAIN spec THEN spec["location"] ELSE ""]

\* datasetSpecHandler.FromYaml of a document that parses.
FromYaml(doc) ==
    LET parsedNames == FindStringSubmatch(doc.name)
    IN IF Len(parsedNames) < 3
       THEN [err |-> TRUE, resource |-> NoResource]
       ELSE [err |-> FALSE,
             resource |-> [version |-> doc.version, name |-> doc.name, type |-> doc.type,
                           datastore |-> "bigquery",
                           spec |-> [project |-> parsedNames[2], dataset |-> parsedNames[3],
                                     metadata |-> MetadataOf(doc.spec)],
                           assets |-> << >>,
                           labels |-> doc.labels]]

\* datasetSpecHandler.ToProtobuf: the ResourceSpecification message.
ToProtobuf(r) ==
    [err |-> FALSE,
     msg |-> [version |-> Int32(r.version), name |-> r.name, datastore |-> "bigquery",
              type |-> r.type,
              spec |-> [k \in SpecKeys(r.spec.metadata) |->
                          IF k = "table_expiration"
                          THEN Float64(r.spec.metadata.tableExpiration)
                          ELSE SpecValue(r.spec.metadata, k)],
              assets |-> r.assets, labels |-> r.labels]]

\* datasetSpecHandler.FromProtobuf of a message that unmarshals.
FromProtobuf(msg) ==
    LET parsedNames == FindStringSubmatch(msg.name)
        bqMeta == [description |-> IF "description" \in DOMAIN msg.spec
                                   THEN msg.spec["description"] ELSE "",
                   tableExpiration |-> IF "table_expiration" \in DOMAIN msg.spec
                                       THEN Int64(msg.spec["table_expiration"])
                                       ELSE ZeroExpiration,
                   location |-> IF "location" \in DOMAIN msg.spec
                                THEN msg.spec["location"] ELSE ""]
    IN IF Len(parsedNames) < 3
       THEN [err |-> TRUE, resource |-> NoResource]
       ELSE [err |-> FALSE,
             resource |-> [version |-> IntOfInt32(msg.version), name |-> msg.name,
                           type |-> msg.type, datastore |-> "bigquery",
                           spec |-> [project |-> parsedNames[2], dataset |-> parsedNames[3],
                                     metadata |-> bqMeta],
                           assets |-> msg.assets, labels |-> msg.labels]]

\* The adapter is handed a well-formed resource.
CInit ==
    /\ \E r \in Resources : conv = [stage |-> "resource", r |-> r]
    /\ SInit
    /\ PIdle
    /\ TIdle
    /\ RIdle
    /\ DIdle

\* FromYaml(ToYaml(r)).
YamlRoundTrip ==
    /\ conv.stage = "resource"
    /\ conv' = [stage |-> "yaml", r |-> conv.r, out |-> ToYaml(conv.r),
                back |-> FromYaml(ToYaml(conv.r).doc)]
    /\ UNCHANGED <<svars, pvars, tvars, rpc, par>>

\* FromProtobuf(ToProtobuf(r)), and the message converted once more.
ProtobufRoundTrip ==
    /\ conv.stage = "resource"
    /\ LET out  == ToProtobuf(conv.r)
           back == FromProtobuf(out.msg)
       IN conv' = [stage |-> "protobuf", r |-> conv.r, out |-> out, back |-> back,
                   again |-> ToProtobuf(back.resource)]
    /\ UNCHANGED <<svars, pvars, tvars, rpc, par>>

CNext ==
    \/ YamlRoundTrip
    \/ ProtobufRoundTrip

SpecAdapter == CInit /\ [][CNext]_vars

\* -------------------------------------------- the adapter on raw input
\* The bytes handed to the adapter: bytes that unmarshal (parses) into a
\* document or message of the name, or bytes that do not.
AdapterInputs == [parses : BOOLEAN, name : ResourceNames]

\* What yaml.Unmarshal fills in for bytes that parse.
YamlDocument(b) ==
    [version |-> [hi |-> 0, lo |-> 0], name |-> b.name, type |-> "dataset", spec |-> << >>,
     labels |-> << >>]

\* What proto.Unmarshal fills in for bytes that parse.
ProtoMessage(b) ==
    [version |-> 0, name |-> b.name, datastore |-> "bigquery", type |-> "dataset",
     spec |-> << >>, assets |-> << >>, labels |-> << >>]

\* datasetSpecHandler.FromYaml of bytes: the error of yaml.Unmarshal is
\* dropped, an empty resource is returned with a nil error.
FromYamlBytes(b) ==
    IF ~b.parses THEN [err |-> FALSE, resource |-> NoResource] ELSE FromYaml(YamlDocument(b))

\* datasetSpecHandler.FromProtobuf of bytes: the error of proto.Unmarshal is
\* returned.
FromProtobufBytes(b) ==
    IF ~b.parses THEN [err |-> TRUE, resource |-> NoResource] ELSE FromProtobuf(ProtoMessage(b))

\* datasetSpec.Validator: nil (TRUE) when the name matches the expression and
\* both submatches are non-empty.
Validator(name) ==
    LET parsedNames == FindStringSubmatch(name)
    IN /\ parsedNames # <<>>
       /\ ~(Len(parsedNames) < 3 \/ Len(parsedNames[2]) = 0 \/ Len(parsedNames[3]) = 0)

AInit ==
    /\ \E b \in AdapterInputs : conv = [stage |-> "bytes", b |-> b]
    /\ SInit
    /\ PIdle
    /\ TIdle
    /\ RIdle
    /\ DIdle

AdapterFromYaml ==
    /\ conv.stage = "bytes"
    /\ conv' = [stage |-> "fromYaml", b |-> conv.b, out |-> FromYamlBytes(conv.b)]
    /\ UNCHANGED <<svars, pvars, tvars, rpc, par>>

AdapterFromProtobuf ==
    /\ conv.stage = "bytes"
    /\ conv' = [stage |-> "fromProtobuf", b |-> conv.b, out |-> FromProtobufBytes(conv.b)]
    /\ UNCHANGED <<svars, pvars, tvars, rpc, par>>

\* The Validator on the name, and the adapters on bytes that carry it.
AdapterValidate ==
    /\ conv.stage = "bytes"
    /\ conv.b.parses
    /\ conv' = [stage |-> "validated", b |-> conv.b, ok |-> Validator(conv.b.name),
                yaml |-> FromYamlBytes(conv.b), proto |-> FromProtobufBytes(conv.b)]
    /\ UNCHANGED <<svars, pvars, tvars, rpc, par>>

ANext ==
    \/ AdapterFromYaml
    \/ AdapterFromProtobuf
    \/ AdapterValidate

SpecParse == AInit /\ [][ANext]_vars

\* ------------------------------------------------------------ properties
\* What the properties below read off the record of the last operation.
CallsTo(cs, fn) == SelectSeq(cs, LAMBDA c : c.fn = fn)

CallsFor(cs, fn, n) == SelectSeq(cs, LAMBDA c : c.fn = fn /\ c.name = n)

EventsOf(evts, type) == SelectSeq(evts, LAMBDA e : e.type = type)

EventsFor(evts, type, n) == SelectSeq(evts, LAMBDA e : e.type = type /\ e.name = n)

\* Sync ran and both the dependency and the priority resolution succeeded.
SyncResolved ==
    /\ sync.ran
    /\ \E i \in DOMAIN sync.calls :
          sync.calls[i].fn = "PriorityResolver.Resolve" /\ sync.calls[i].ok

\* The compile output of the stored spec n with its resolved priority.
ExpectedArtifact(n) ==
    Compile(CHOOSE s \in Range(PriorityResolve(GetAll(sync.store), {}).specs) : s.name = n)

\* The upload of job n failed: its JobUpload event carries an error.
UploadFailed(n) ==
    \E i \in DOMAIN sync.events :
        /\ sync.events[i].type = "JobUpload"
        /\ sync.events[i].name = n
        /\ sync.events[i].err # NoError

\* The delete of orphan n failed: its JobRemoteDelete event carries an error.
OrphanDeleteFailed(n) ==
    \E i \in DOMAIN sync.events :
        /\ sync.events[i].type = "JobRemoteDelete"
        /\ sync.events[i].name = n
        /\ sync.events[i].err # NoError

\* Artifact n is what it was before the operation (there or not).
ArtifactAsBefore(n) ==
    /\ n \in DOMAIN artifactStore <=> n \in DOMAIN preArtifactStore
    /\ n \in DOMAIN artifactStore => artifactStore[n] = preArtifactStore[n]

\* One artifact per stored spec, the compile output of the spec with its
\* priority, unless the job's upload failed and its artifact is as before.
ArtifactPerSpec ==
    \A n \in DOMAIN sync.store :
        IF UploadFailed(n)
        THEN ArtifactAsBefore(n)
        ELSE n \in DOMAIN artifactStore /\ artifactStore[n] = ExpectedArtifact(n)

\* C1 as the spec states it: after a Sync whose dependency and priority
\* resolution succeeded, the ArtifactStore holds one artifact per stored spec
\* (or the previous one where the upload failed) and no other names.
C1_NoOtherNames ==
    SyncResolved =>
        /\ ArtifactPerSpec
        /\ DOMAIN artifactStore \subseteq DOMAIN sync.store

\* C1: after a Sync whose dependency and priority resolution succeeded, the
\* ArtifactStore holds, for every spec of the SpecStore, the compile output of
\* the spec with its resolved priority, or the artifact as it was before when
\* the job's compile or save failed; every other name it holds is an orphan
\* whose Delete failed, left as it was, and every other orphan is gone.
C1_SyncArtifacts ==
    SyncResolved =>
        /\ ArtifactPerSpec
        /\ \A n \in DOMAIN artifactStore \ DOMAIN sync.store :
              OrphanDeleteFailed(n) /\ ArtifactAsBefore(n)
        /\ \A n \in DOMAIN preArtifactStore \ DOMAIN sync.store :
              ~OrphanDeleteFailed(n) => n \notin DOMAIN artifactStore

\* A Sync that replaced the artifact of one job and left the artifact of a
\* job whose upload failed as it was.
C1_Witness ==
    /\ SyncResolved
    /\ \E n, m \in DOMAIN sync.store :
          /\ ~UploadFailed(n)
          /\ n \in DOMAIN preArtifactStore
          /\ artifactStore[n] # preArtifactStore[n]
          /\ UploadFailed(m)
          /\ m \in DOMAIN artifactStore

\* C2: a DeployJobSpecification that returns OK leaves the SpecStore with
\* exactly the names of the request, and the ArtifactStore with exactly those
\* names too.
C2_DeployNames ==
    (op = "DeployJobSpecification" /\ result.code = "OK") =>
        /\ DOMAIN specStore = NamesOf(request)
        /\ DOMAIN artifactStore = NamesOf(request)

\* A successful deploy on a project that held a spec and an artifact the
\* request does not name.
C2_Witness ==
    /\ op = "DeployJobSpecification"
    /\ result.code = "OK"
    /\ request # <<>>
    /\ DOMAIN preSpecStore \ NamesOf(request) # {}
    /\ DOMAIN preArtifactStore \ NamesOf(request) # {}

\* What ListNames returned to Sync.
Listed == UNION {c.ret : c \in Range(CallsTo(sync.calls, "ArtifactStore.ListNames"))}

FailedResolves == SelectSeq(CallsTo(sync.calls, "DependencyResolver.Resolve"), LAMBDA c : ~c.ok)

\* C4: Sync attempts DependencyResolver.Resolve for every spec of the project,
\* once each, also after one failed; when at least one fails it returns one
\* aggregated error whose text starts with "N errors occurred" and that has
\* one entry per failing spec, it calls nothing else (no priority resolution,
\* Compile, Save, ListNames or Delete) and the ArtifactStore is unchanged.
C4_ResolveBatched ==
    sync.ran =>
        /\ [i \in DOMAIN GetAll(sync.store) |-> GetAll(sync.store)[i].name]
              = [i \in DOMAIN CallsTo(sync.calls, "DependencyResolver.Resolve") |->
                    CallsTo(sync.calls, "DependencyResolver.Resolve")[i].name]
        /\ FailedResolves # <<>> =>
              /\ sync.err.kind = "Aggregated"
              /\ [i \in DOMAIN sync.err.entries |-> sync.err.entries[i].job]
                    = [i \in DOMAIN FailedResolves |-> FailedResolves[i].name]
              /\ ErrorText(sync.err)[1] = Line("errors occurred", Len(FailedResolves))
              /\ Len(ErrorText(sync.err)) = 1 + Len(FailedResolves)
              /\ \A i \in DOMAIN sync.calls : sync.calls[i].fn = "DependencyResolver.Resolve"
              /\ artifactStore = preArtifactStore

\* A Sync on two specs that both failed to resolve, over a non-empty
\* ArtifactStore.
C4_Witness ==
    /\ sync.ran
    /\ Len(FailedResolves) = 2
    /\ ~CallsTo(sync.calls, "DependencyResolver.Resolve")[1].ok
    /\ preArtifactStore # << >>

\* The JobUpload events of Sync that carry an error.
FailedUploads == SelectSeq(EventsOf(sync.events, "JobUpload"), LAMBDA e : e.err # NoError)

\* C5: a compile or Save error of one job does not abort the batch.  Every
\* prioritized job is compiled and, when that succeeds, saved; ListNames and
\* the delete of every orphan still run; the JobUpload event of a job carries
\* an error exactly when its Compile or its Save failed; Sync returns an
\* aggregated error that contains every such error; and the ack a deploy
\* streams for the job has success = false and the error's text as message.
C5_UploadErrors ==
    SyncResolved =>
        /\ \A n \in DOMAIN sync.store :
              LET compiles == CallsFor(sync.calls, "Compiler.Compile", n)
                  saves    == CallsFor(sync.calls, "ArtifactStore.Save", n)
                  ups      == EventsFor(sync.events, "JobUpload", n)
              IN /\ Len(compiles) = 1
                 /\ compiles[1].ok => saves # <<>>
                 /\ Len(ups) = 1
                 /\ ups[1].err # NoError <=>
                       (~compiles[1].ok \/ \A i \in DOMAIN saves : ~saves[i].ok)
        /\ Len(CallsTo(sync.calls, "ArtifactStore.ListNames")) = 1
        /\ \A n \in Listed \ DOMAIN sync.store :
              CallsFor(sync.calls, "ArtifactStore.Delete", n) # <<>>
        /\ \A i \in DOMAIN FailedUploads :
              /\ sync.err.kind = "Aggregated"
              /\ \E k \in DOMAIN sync.err.entries : sync.err.entries[k] = FailedUploads[i].err
              /\ op = "DeployJobSpecification" =>
                    \E k \in DOMAIN stream :
                        stream[k] = [success |-> FALSE, ack |-> TRUE,
                                     jobName |-> FailedUploads[i].name,
                                     message |-> ErrorText(FailedUploads[i].err)]

\* A deploy in which the upload of the first job failed, the second job was
\* saved all the same, and the error came back.
C5_Witness ==
    /\ op = "DeployJobSpecification"
    /\ SyncResolved
    /\ Len(EventsOf(sync.events, "JobUpload")) = 2
    /\ EventsOf(sync.events, "JobUpload")[1].err # NoError
    /\ EventsOf(sync.events, "JobUpload")[2].err = NoError
    /\ EventsOf(sync.events, "JobUpload")[2].name \in DOMAIN artifactStore
    /\ result.code = "Internal"

\* The acks and the notices of the stream.
Acks == SelectSeq(stream, LAMBDA r : r.ack)

Notices == SelectSeq(stream, LAMBDA r : ~r.ack)

\* The ack of a JobUpload event.
AckOf(evt) ==
    [success |-> evt.err = NoError, ack |-> TRUE, jobName |-> evt.name,
     message |-> IF evt.err = NoError THEN <<>> ELSE ErrorText(evt.err)]

\* Sync ran and Resolve succeeded for every spec.
DependenciesResolved ==
    /\ sync.ran
    /\ \A i \in DOMAIN sync.calls :
          sync.calls[i].fn = "DependencyResolver.Resolve" => sync.calls[i].ok

\* Exactly one JobUpload event per project spec, and one ack per upload.
OneAckPerUpload ==
    /\ NamesOf(EventsOf(events, "JobUpload")) = DOMAIN sync.store
    /\ \A n \in DOMAIN sync.store : Len(EventsFor(events, "JobUpload", n)) = 1
    /\ Acks = [i \in DOMAIN EventsOf(events, "JobUpload") |->
                  AckOf(EventsOf(events, "JobUpload")[i])]

\* C6 as the spec states it: in a deploy whose dependency resolution
\* succeeded there is one JobUpload event per project spec, one ack per
\* upload, and one notice per orphan delete of the ArtifactStore.
C6_NoticePerOrphan ==
    (op = "DeployJobSpecification" /\ DependenciesResolved) =>
        /\ OneAckPerUpload
        /\ [i \in DOMAIN Notices |-> Notices[i].jobName]
              = [i \in DOMAIN CallsTo(sync.calls, "ArtifactStore.Delete") |->
                    CallsTo(sync.calls, "ArtifactStore.Delete")[i].name]

\* C6: in a deploy whose dependency and priority resolution succeeded there
\* is exactly one JobUpload event per project spec; the stream is handed
\* exactly one ack per upload (isAck, success iff the event has no error, the
\* job's name, the error's text) and exactly one notice (not isAck) per
\* JobRemoteDelete event, those of KeepOnly's spec deletes and those of
\* Sync's orphan deletes alike.
C6_StreamPerEvent ==
    (op = "DeployJobSpecification" /\ SyncResolved) =>
        /\ OneAckPerUpload
        /\ [i \in DOMAIN Notices |-> Notices[i].jobName]
              = [i \in DOMAIN EventsOf(events, "JobRemoteDelete") |->
                    EventsOf(events, "JobRemoteDelete")[i].name]
        /\ Len(stream) = Len(events)

\* A deploy that dropped a job of the project: an ack for the job deployed, a
\* notice for the spec KeepOnly deleted and one for the orphan Sync deleted.
C6_Witness ==
    /\ op = "DeployJobSpecification"
    /\ SyncResolved
    /\ Len(Acks) = 1
    /\ Len(Notices) = 2
    /\ Len(EventsOf(keep.events, "JobRemoteDelete")) = 1
    /\ Len(EventsOf(sync.events, "JobRemoteDelete")) = 1

\* The priority Resolve returned for the job named n.
PriorityOf(n) == (CHOOSE sp \in Range(pOut.specs) : sp.name = n).priority

\* C7: on an acyclic graph Resolve succeeds, returns the specs in input order
\* and, for every edge A -> B of the batch (A depends on B), priority(A) is
\* lower than priority(B); it fails only on a graph that has a cycle.
C7_PriorityOrder ==
    /\ pc = "done" =>
          /\ pOut.err = NoError
          /\ [i \in DOMAIN pOut.specs |-> [name |-> pOut.specs[i].name, deps |-> pOut.specs[i].deps]]
                = pIn
          /\ \A i \in DOMAIN pIn : \A b \in IntraDeps(pDeps, pIn[i].name) :
                pOut.specs[i].priority < PriorityOf(b)
    /\ pc = "error" => Cycles(DepsOf(pIn)) # {}
    /\ pc \in {"assign", "done"} => ~HasCycle(pDeps)

\* Resolve returned on a graph in which a job reaches another one both
\* directly and through a third.
C7_Witness ==
    /\ pc = "done"
    /\ \E a, b, c \in DOMAIN pDeps :
          /\ {b, c} \subseteq pDeps[a]
          /\ c \in pDeps[b]
          /\ PriorityOf(a) < PriorityOf(b)
          /\ PriorityOf(b) < PriorityOf(c)

\* C8 as the spec states it: every priority Resolve assigns lies between 0
\* and the maximum, 10000, on every acyclic input, and a spec with no
\* dependency and no dependent receives 10000.
C8_PriorityRange ==
    pc = "done" =>
        \A i \in DOMAIN pOut.specs :
            /\ pOut.specs[i].priority \in 0..MaxPriorityWeight
            /\ (IntraDeps(pDeps, pIn[i].name) = {} /\ Dependents(pDeps, {pIn[i].name}) = {})
                  => pOut.specs[i].priority = MaxPriorityWeight

\* The dependency graph of the specs Sync enumerated.
SyncGraph == [n \in DOMAIN sync.store |-> sync.store[n].deps]

C10_KeepOnly ==
    keep.ran =>
        /\ \A n \in DOMAIN keep.pre :
              Len(CallsFor(keep.calls, "SpecStore.Delete", n))
                 = IF n \in NamesOf(keep.toKeep) THEN 0 ELSE 1
        /\ NamesOf(CallsTo(keep.calls, "SpecStore.Delete")) \subseteq DOMAIN keep.pre
        /\ \A i \in DOMAIN keep.calls : keep.calls[i].fn = "SpecStore.Delete"
        /\ (\A i \in DOMAIN keep.calls : keep.calls[i].ok) =>
              DOMAIN keep.post = DOMAIN keep.pre \cap NamesOf(keep.toKeep)
        /\ op \in {"KeepOnly", "KeepOnlyAgain", "DeployJobSpecification"}
        /\ (op \in {"KeepOnly", "KeepOnlyAgain"} \/ ~sync.ran) => specStore = keep.post

\* A KeepOnly that kept one stored spec and deleted another.
C10_Witness ==
    /\ keep.ran
    /\ DOMAIN keep.pre \cap NamesOf(keep.toKeep) # {}
    /\ DOMAIN keep.pre \ NamesOf(keep.toKeep) # {}
    /\ DOMAIN keep.post = DOMAIN keep.pre \cap NamesOf(keep.toKeep)
    /\ DOMAIN specStore = DOMAIN keep.post

\* C11: a second KeepOnly with the same toKeep, right after a first one that
\* returned no error, leaves the SpecStore as it was, invokes no Delete (no
\* call at all), emits no event and returns no error.
C11_KeepOnlyIdempotent ==
    op = "KeepOnlyAgain" =>
        /\ keep.toKeep = keep.first.toKeep
        /\ keep.pre = keep.first.post
        /\ specStore = preSpecStore
        /\ specStore = keep.first.post
        /\ keep.calls = <<>>
        /\ calls = <<>>
        /\ events = <<>>
        /\ result = NoError

\* A second KeepOnly after a first one that deleted a spec and kept one.
C11_Witness ==
    /\ op = "KeepOnlyAgain"
    /\ keep.first.calls # <<>>
    /\ keep.first.post # << >>
    /\ specStore = keep.first.post

\* The JobRemoteDelete events of KeepOnly that carry an error.
FailedSpecDeletes == SelectSeq(keep.events, LAMBDA e : e.err # NoError)

\* C12: in KeepOnly a failing SpecStore.Delete does not stop the rest.  Every
\* stored spec whose name is no name of toKeep has its Delete attempted and
\* its JobRemoteDelete event emitted, with the error exactly when the Delete
\* failed; the specs whose Delete succeeded are gone and the others stay; the
\* errors come back together, in order, as one aggregated error; and in a
\* deploy every one of these events is streamed as a notice and the RPC ends
\* Internal without running Sync.
C12_KeepOnlyErrors ==
    keep.ran =>
        /\ \A n \in DOMAIN keep.pre \ NamesOf(keep.toKeep) :
              LET dels == CallsFor(keep.calls, "SpecStore.Delete", n)
                  evts == EventsFor(keep.events, "JobRemoteDelete", n)
              IN /\ Len(dels) = 1
                 /\ Len(evts) = 1
                 /\ evts[1].err # NoError <=> ~dels[1].ok
                 /\ n \in DOMAIN keep.post <=> ~dels[1].ok
        /\ Len(keep.events) = Len(keep.calls)
        /\ keep.err = IF FailedSpecDeletes = <<>> THEN NoError
                      ELSE Aggregated([i \in DOMAIN FailedSpecDeletes |-> FailedSpecDeletes[i].err])
        /\ op = "DeployJobSpecification" =>
              /\ \A i \in DOMAIN keep.events :
                    stream[i] = [success |-> FALSE, ack |-> FALSE,
                                 jobName |-> keep.events[i].name,
                                 message |-> EventString(keep.events[i])]
              /\ keep.err # NoError => (result.code = "Internal" /\ ~sync.ran)

\* A KeepOnly with two specs to delete: the Delete of the first failed, the
\* second was deleted all the same.
C12_Witness ==
    /\ keep.ran
    /\ Len(keep.calls) = 2
    /\ ~keep.calls[1].ok
    /\ keep.calls[2].ok
    /\ DOMAIN keep.post = {keep.calls[1].name}
    /\ Len(keep.err.entries) = 1

\* No call of the operation saved or deleted anything in a store.
NoStoreWrite ==
    \A i \in DOMAIN calls :
        calls[i].fn \notin {"ArtifactStore.Save", "ArtifactStore.Delete",
                            "SpecStore.Save", "SpecStore.Delete", "Service.Create"}

\* C13: DumpJobSpecification resolves the dependencies of every spec of the
\* project and the priorities of the whole project, compiles the requested
\* spec only, and returns its compile output (with the resolved priority);
\* it performs no Save and no Delete, and both stores are as before after any
\* Dump, failed or not.
C13_DumpWritesNothing ==
    op = "DumpJobSpecification" =>
        /\ specStore = preSpecStore
        /\ artifactStore = preArtifactStore
        /\ NoStoreWrite
        /\ events = <<>>
        /\ result.code = "OK" =>
              /\ result.success
              /\ request[1] \in DOMAIN specStore
              /\ NamesOf(CallsTo(calls, "DependencyResolver.Resolve")) = DOMAIN specStore
              /\ Len(CallsTo(calls, "PriorityResolver.Resolve")) = 1
              /\ CallsTo(calls, "Compiler.Compile") = <<Call("Compiler.Compile", request[1], TRUE)>>
              /\ result.content =
                    Compile(CHOOSE sp \in
                              Range(PriorityResolve(GetAll(specStore), {}).specs) :
                                sp.name = request[1]).contents
        /\ result.code # "OK" => (~result.success /\ result.code = "Internal")

\* A successful Dump of a job that depends on another one, in a project whose
\* ArtifactStore holds nothing for it.
C13_Witness ==
    /\ op = "DumpJobSpecification"
    /\ result.code = "OK"
    /\ result.content.priority < MaxPriorityWeight
    /\ request[1] \notin DOMAIN artifactStore
    /\ Cardinality(DOMAIN specStore) = 2

CreateRan == op = "Create"

\* C25: Create on a name that already exists in the SpecStore overwrites the
\* stored spec and returns ok, it never rejects a duplicate name; after any
\* successful Create, GetByName(spec.name) returns the spec just created;
\* when the store's Save fails, Create returns an error.
C25_CreateOverwrites ==
    CreateRan =>
        LET spec == request[1]
            ok   == calls[1].ok
        IN /\ result.kind # "DuplicateName"
           /\ ok <=> result = NoError
           /\ ok => /\ GetByName(specStore, spec.name) = [spec |-> spec, err |-> NoError]
                    /\ DOMAIN specStore = DOMAIN preSpecStore \cup {spec.name}
                    /\ \A n \in DOMAIN preSpecStore \ {spec.name} :
                          specStore[n] = preSpecStore[n]
           /\ ~ok => specStore = preSpecStore

\* Create returned ok on a name that was stored with another spec.
C25_Witness ==
    /\ CreateRan
    /\ result = NoError
    /\ request[1].name \in DOMAIN preSpecStore
    /\ preSpecStore[request[1].name] # request[1]

ServiceCreateRan == op = "Service.Create"

\* C26: Create validates the spec before persisting it: a spec whose name
\* does not match the identifier pattern, whose schedule interval is not a
\* recognized cron expression, whose schedule start is absent, or whose task
\* kind is empty is rejected with a ValidationError and SpecStore.Save is not
\* invoked, so the store is unchanged.
C26_CreateValidates ==
    ServiceCreateRan =>
        LET spec == request[1]
        IN ~spec.nameMatches \/ spec.interval # "@daily" \/ spec.startDate = ""
                \/ spec.taskKind = "" =>
              /\ result.kind = "ValidationError"
              /\ calls = <<>>
              /\ specStore = preSpecStore

\* What Create rejects: a bad name, interval or start; an empty task kind is
\* saved.
C26_ValidatedFields ==
    ServiceCreateRan =>
        LET spec == request[1]
        IN ~spec.nameMatches \/ spec.interval # "@daily" \/ spec.startDate = "" =>
              /\ result.kind = "ValidationError"
              /\ calls = <<>>
              /\ specStore = preSpecStore

\* Create saved a spec with an empty task kind.
C26_Witness ==
    /\ ServiceCreateRan
    /\ request[1].taskKind = ""
    /\ result = NoError
    /\ specStore[request[1].name] = request[1]

DeployRan == op = "DeployJobSpecification"

\* The Create calls of the operation: the calls at the front of its calls.
Creates == CallsTo(calls, "Service.Create")

\* C28: in DeployJobSpecification the stages run strictly in the order:
\* Create for every requested job, in request order, then KeepOnly with
\* exactly the requested jobs as toKeep, then Sync; KeepOnly is invoked only
\* if every adaptation and Create succeeded, and Sync only if KeepOnly
\* returned no error.
C28_StageOrder ==
    DeployRan =>
        /\ Len(Creates) <= Len(request)
        /\ SubSeq(calls, 1, Len(Creates)) = Creates
        /\ \A i \in DOMAIN Creates : Creates[i].name = request[i].name
        /\ keep.ran =>
              /\ Len(Creates) = Len(request)
              /\ \A i \in DOMAIN Creates : Creates[i].ok
              /\ keep.toKeep = request
              /\ SubSeq(calls, Len(Creates) + 1, Len(Creates) + Len(keep.calls)) = keep.calls
              /\ \A n \in NamesOf(request) : keep.pre[n] = request[CHOOSE i \in DOMAIN request :
                                                                  request[i].name = n]
        /\ sync.ran =>
              /\ keep.ran
              /\ keep.err = NoError
              /\ calls = Creates \o keep.calls \o sync.calls
              /\ sync.store = keep.post
        /\ ~sync.ran => calls = Creates \o keep.calls
        /\ result.code = "OK" => keep.ran /\ sync.ran

\* A deploy of two jobs that created both, ran KeepOnly and then Sync.
C28_Witness ==
    /\ DeployRan
    /\ Len(request) = 2
    /\ Len(Creates) = 2
    /\ keep.ran
    /\ sync.ran
    /\ sync.calls # <<>>

\* The deploy failed while adapting or creating a job of the request.
DeployFailedInCreate ==
    /\ DeployRan
    /\ result.code # "OK"
    /\ ~keep.ran
    /\ Head(result.message).text # "project not found"

\* C29: if DeployJobSpecification fails while adapting or creating the k-th
\* job of the request, the specs of jobs 1..k-1 stay persisted in the
\* SpecStore, no spec is deleted, Sync is not run, the ArtifactStore is
\* unchanged, and no message has been sent on the stream.
C29_NoRollback ==
    DeployFailedInCreate =>
        LET done == SelectSeq(Creates, LAMBDA c : c.ok)
        IN /\ Len(done) < Len(request)
           /\ \A i \in DOMAIN done :
                 /\ request[i].name \in DOMAIN specStore
                 /\ specStore[request[i].name] = request[i]
           /\ DOMAIN preSpecStore \subseteq DOMAIN specStore
           /\ \A n \in DOMAIN specStore \ {request[i].name : i \in DOMAIN done} :
                 n \in DOMAIN preSpecStore /\ specStore[n] = preSpecStore[n]
           /\ ~sync.ran
           /\ CallsTo(calls, "SpecStore.Delete") = <<>>
           /\ artifactStore = preArtifactStore
           /\ events = <<>>
           /\ stream = <<>>

\* A deploy that failed on its second job after creating the first, which
\* was not in the store before.
C29_Witness ==
    /\ DeployFailedInCreate
    /\ Len(request) = 2
    /\ request[1].name \notin DOMAIN preSpecStore
    /\ request[1].name \in DOMAIN specStore

\* ----------------------------------------------- properties of the steps
PrefixOf(a, b) == Len(a) <= Len(b) /\ SubSeq(b, 1, Len(a)) = a

CountOf(seq, x) == Cardinality({i \in DOMAIN seq : seq[i] = x})

ErrorLine(err) == [text |-> err.kind, n |-> err.job, nodes |-> err.nodes]

DeployDone == engine.stage = "done"

DeployFailed == DeployDone /\ (engine.keepErr # NoError \/ engine.syncErr # NoError)

UploadStarted(n) == CountOf(engine.started, [stage |-> "upload", name |-> n])

UploadEvents(n) ==
    {i \in DOMAIN engine.events :
        engine.events[i].type = "JobUpload" /\ engine.events[i].name = n}

SaveCalls(n) ==
    {i \in DOMAIN engine.calls :
        engine.calls[i].fn = "ArtifactStore.Save" /\ engine.calls[i].name = n}

\* C15, the status: when KeepOnly or Sync returned an error, the RPC ends
\* with code Internal and its message holds the line of every per-item failure.
C15_StatusListsFailures ==
    DeployFailed =>
        /\ engine.result.code = "Internal"
        /\ \A i \in DOMAIN engine.errs :
              \E j \in DOMAIN engine.result.message :
                  engine.result.message[j] = ErrorLine(engine.errs[i])

\* C15, the stream: a step only appends to the responses sent on the stream.
C15_StreamAppendOnly == PrefixOf(observers.sent, observers'.sent)

\* C15: when KeepOnly or Sync returns an error during DeployJobSpecification
\* the RPC ends with status Internal whose message contains every per-item
\* failure message, and every ack already sent stays sent: messages are only
\* appended to the stream, never retracted.
C15_DeployFailure == [](C15_StatusListsFailures) /\ [][C15_StreamAppendOnly]_vars

\* A failed deploy with a per-item failure in its status and an ack that was
\* sent on the stream and is still there.
C15_Witness ==
    /\ DeployFailed
    /\ engine.errs # <<>>
    /\ \E i \in DOMAIN observers.sent : observers.sent[i].ack /\ observers.sent[i].success

\* C16, in a state: cancellation is only observed on a cancelled context and
\* leaves no work queued; a Sync that observed it returns, with nothing in
\* flight, a Cancelled error carrying exactly the errors observed; and a
\* deploy that succeeded left no work undone.
C16_CancelledReturn ==
    /\ engine.observed => ctx.cancelled /\ engine.todo = <<>>
    /\ DeployDone /\ engine.observed =>
          /\ engine.working = {}
          /\ DOMAIN engine.delivering = {}
          /\ \A n \in Names : UploadStarted(n) > 0 => UploadEvents(n) # {}
          /\ engine.syncErr.kind = "Cancelled"
          /\ engine.syncErr.entries = engine.errs
          /\ engine.result.code = "Internal"
    /\ DeployDone /\ engine.result.code = "OK" =>
          /\ ~engine.observed
          /\ \A n \in DOMAIN engine.store : UploadStarted(n) = 1 /\ UploadEvents(n) # {}
          /\ DOMAIN engine.arts \subseteq DOMAIN engine.store

\* C16, in a step: once the cancellation is observed no work item is started.
C16_NoNewWork ==
    engine.observed => engine'.started = engine.started /\ engine'.working \subseteq engine.working

\* C16: when the context of a Sync is cancelled the engine starts no new work
\* item after the cancellation is observed, waits for every in-flight item to
\* finish, then returns a Cancelled error carrying the errors already
\* observed; it never returns success after observing cancellation.
C16_Cancellation == [](C16_CancelledReturn) /\ [][C16_NoNewWork]_vars

\* A cancelled Sync that returned with an observed error, one upload done and
\* one spec never uploaded.
C16_Witness ==
    /\ DeployDone
    /\ engine.observed
    /\ engine.errs # <<>>
    /\ \E n \in DOMAIN engine.store : UploadStarted(n) = 1
    /\ \E n \in DOMAIN engine.store : UploadStarted(n) = 0

\* C17 as worded: no two Save calls of one Sync are for the same job name.
C17_OneSavePerName == \A n \in Names : Cardinality(SaveCalls(n)) <= 1

\* C17: with compile and upload on parallel workers each prioritized spec is
\* handled by exactly one task, and the Save calls for a name are those of
\* that one task: one call, or a failed call and its single retry.
C17_OneTaskPerName ==
    /\ \A n \in Names :
          /\ UploadStarted(n) <= 1
          /\ Cardinality(UploadEvents(n)) <= UploadStarted(n)
          /\ Cardinality(SaveCalls(n)) <= 2 * UploadStarted(n)
          /\ n \in engine.working => SaveCalls(n) = {}
          /\ \A i, j \in SaveCalls(n) : i < j => j = i + 1 /\ ~engine.calls[i].ok
    /\ engine.stage \in {"delete", "done"} /\ engine.syncErr = NoError /\ engine.keepErr = NoError =>
          \A n \in DOMAIN engine.store : UploadStarted(n) = 1

\* Two workers at work at once, on different names.
C17_Witness == Cardinality(engine.working) = 2

\* One name saved twice by its task: the failed Save and its retry.
C17_RetryWitness ==
    /\ Cardinality(engine.working) = 1
    /\ \E n \in Names : Cardinality(SaveCalls(n)) = 2

\* The positions in the order of deliveries where event id reached observer to.
Deliveries(id, to) ==
    {i \in DOMAIN observers.order : observers.order[i] = [evt |-> id, to |-> to]}

\* The events a thread is still handing to the chain.
InNotify ==
    UNION {Range(engine.delivering[t].queue) : t \in DOMAIN engine.delivering}

\* C18: Notify(event) on the observer chain delivers the event to every joined
\* observer, once each, in join order: in DeployJobSpecification the
\* server-wide progress observer receives each event before the stream
\* observer does.
C18_ChainOrder ==
    \A id \in DOMAIN engine.events :
        /\ Cardinality(Deliveries(id, "progress")) <= 1
        /\ Cardinality(Deliveries(id, "stream")) <= 1
        /\ \A j \in Deliveries(id, "stream") : \E i \in Deliveries(id, "progress") : i < j
        /\ id \notin InNotify =>
              /\ Cardinality(Deliveries(id, "progress")) = 1
              /\ Cardinality(Deliveries(id, "stream")) = 1

\* A deploy that returned after notifying the chain of several events.
C18_Witness ==
    /\ DeployDone
    /\ Len(engine.events) >= 2
    /\ Len(observers.order) = 2 * Len(engine.events)

DeleteCalls(n) ==
    {i \in DOMAIN engine.calls :
        engine.calls[i].fn = "ArtifactStore.Delete" /\ engine.calls[i].name = n}

Enumerated ==
    {i \in DOMAIN engine.calls : engine.calls[i].fn = "ArtifactStore.ListNames"}

\* C19, in a state, once a Send has failed: the errors of the engine are still
\* those of its own failed calls, the result is made of them alone, every
\* event that is not in delivery has reached both observers, and a Sync that
\* was not cancelled uploaded every spec and called Delete for every orphan.
C19_EngineUnaffected ==
    observers.log # <<>> =>
        /\ \A i \in DOMAIN engine.errs :
              \E c \in DOMAIN engine.calls :
                  engine.calls[c].name = engine.errs[i].job /\ ~engine.calls[c].ok
        /\ \A id \in DOMAIN engine.events \ InNotify :
              Deliveries(id, "progress") # {} /\ Deliveries(id, "stream") # {}
        /\ DeployDone =>
              /\ engine.result = DeployStatus(engine.keepErr, engine.syncErr)
              /\ engine.result.code = "OK" <=>
                    engine.keepErr = NoError /\ engine.syncErr = NoError
              /\ engine.keepErr \in {NoError, Aggregated(engine.errs)}
              /\ engine.keepErr = NoError =>
                    IF engine.syncErr.kind = "CycleError"
                    THEN engine.errs = <<>>
                    ELSE engine.syncErr =
                            IF engine.observed THEN Cancelled(engine.errs)
                            ELSE ErrorOrNil(engine.errs)
        /\ DeployDone /\ ~engine.observed /\ engine.keepErr = NoError /\ Enumerated # {} =>
              /\ \A n \in DOMAIN engine.store : UploadStarted(n) = 1 /\ UploadEvents(n) # {}
              /\ \A i \in Enumerated :
                    \A n \in engine.calls[i].ret \ DOMAIN engine.store : DeleteCalls(n) # {}

\* C19, in a step: the step in which a Send fails changes nothing of the
\* engine but the progress of that notification.
C19_FailureSwallowed ==
    Len(observers'.log) > Len(observers.log) =>
        engine' = [engine EXCEPT !.delivering = engine'.delivering]

\* C19: a failure of the stream observer's Send is swallowed: it is not
\* propagated to the engine, does not change the result of KeepOnly or Sync,
\* does not stop later events from being notified, and does not prevent the
\* remaining jobs from being uploaded or orphans from being deleted.
C19_ObserverFailure == [](C19_EngineUnaffected) /\ [][C19_FailureSwallowed]_vars

\* A deploy that succeeded although the first Send failed: a later event was
\* sent, a job was uploaded and an orphan deleted after the failure.
C19_Witness ==
    /\ DeployDone
    /\ engine.result.code = "OK"
    /\ observers.log # <<>>
    /\ observers.log[1] = 1
    /\ Len(engine.events) >= 2
    /\ observers.sent # <<>>
    /\ \E n \in Names : DeleteCalls(n) # {}

\* ------------------------------------------------- properties of the RPCs
WindowParamEmpty ==
    rpc.req.size = "" \/ rpc.req.offset = "" \/ rpc.req.truncateTo = ""

GetWindowReturned == rpc.method = "GetWindow" /\ rpc.returned

\* C20: GetWindow with any of size, offset or truncateTo empty returns status
\* FailedPrecondition, whatever the other fields of the request are, and
\* computes no window.
C20_EmptyWindowParam ==
    GetWindowReturned /\ WindowParamEmpty =>
        /\ rpc.resp.code = "FailedPrecondition"
        /\ ~rpc.resp.prepared
        /\ rpc.resp.window = NoWindow

\* What GetWindow does on an empty window parameter: FailedPrecondition when
\* the scheduled time of the request is a valid timestamp, Internal when it
\* is not; in both cases no window is computed.
C20_EmptyAfterTimestamp ==
    GetWindowReturned /\ WindowParamEmpty =>
        /\ rpc.resp.code =
              IF rpc.req.scheduledAt.kind = "valid" THEN "FailedPrecondition" ELSE "Internal"
        /\ ~rpc.resp.prepared
        /\ rpc.resp.window = NoWindow

\* GetWindow returned FailedPrecondition for a request with one empty window
\* parameter and a valid scheduled time.
C20_Witness ==
    /\ GetWindowReturned
    /\ rpc.req.size = ""
    /\ rpc.req.offset # ""
    /\ rpc.resp.code = "FailedPrecondition"

RegisterSecretReturned == rpc.method = "RegisterSecret" /\ rpc.returned

\* C21: RegisterSecret whose value is empty after base-64 decoding returns
\* status Internal and saves nothing: no secret with an empty decoded value
\* is ever passed to the secret store's Save.
C21_EmptySecret ==
    RegisterSecretReturned =>
        /\ DecodeString(rpc.req.value).bytes = <<>> =>
              rpc.resp.code = "Internal" /\ rpc.resp.saves = <<>>
        /\ \A i \in DOMAIN rpc.resp.saves : rpc.resp.saves[i].value # <<>>

\* What RegisterSecret rejects: the value that is empty on the wire.
C21_EmptyOnWire ==
    RegisterSecretReturned /\ rpc.req.value = <<>> =>
        rpc.resp.code = "Internal" /\ rpc.resp.saves = <<>>

\* RegisterSecret rejected an empty value.
C21_Witness ==
    /\ RegisterSecretReturned
    /\ rpc.req.value = <<>>
    /\ rpc.req.projectFound
    /\ rpc.resp.code = "Internal"

RegisterInstanceReturned == rpc.method = "RegisterInstance" /\ rpc.returned

\* C22: every error surfaced by an RPC handler is mapped to a status code by
\* its kind: a request naming an unknown job spec (GetByName not found, as in
\* RegisterInstance) gives NotFound, and every other error gives Internal with
\* the original error message at the front of the status message.
C22_StatusByKind ==
    RegisterInstanceReturned /\ rpc.resp.cause # "nil" =>
        IF rpc.resp.cause = "job"
        THEN rpc.resp.code = "NotFound"
        ELSE rpc.resp.code = "Internal" /\ Head(rpc.resp.message) = rpc.resp.cause

\* What RegisterInstance does: every error, the unknown job spec included,
\* gives Internal with the original error message at the front.
C22_AlwaysInternal ==
    RegisterInstanceReturned /\ rpc.resp.cause # "nil" =>
        rpc.resp.code = "Internal" /\ Head(rpc.resp.message) = rpc.resp.cause

\* RegisterInstance returned for a job name that GetByName did not find.
C22_Witness == RegisterInstanceReturned /\ rpc.resp.cause = "job"

\* --------------------------------------------- properties of the adapter
\* Two resources are equal on the recognized fields.
SameResource(a, b) ==
    /\ a.version = b.version
    /\ a.name = b.name
    /\ a.type = b.type
    /\ a.datastore = b.datastore
    /\ a.spec.project = b.spec.project
    /\ a.spec.dataset = b.spec.dataset
    /\ a.spec.metadata = b.spec.metadata
    /\ a.assets = b.assets
    /\ a.labels = b.labels

\* C23: for every well-formed dataset resource r, FromYaml(ToYaml(r)) equals
\* r on all recognized fields: version, name, type, datastore, spec (project,
\* dataset, description, table expiration, location), assets and labels.
C23_YamlRoundTrip ==
    conv.stage = "yaml" =>
        /\ ~conv.out.err
        /\ ~conv.back.err
        /\ SameResource(conv.back.resource, conv.r)

\* What the YAML round trip keeps: every recognized field but the assets,
\* which come back empty.
C23_AllButAssets ==
    conv.stage = "yaml" =>
        /\ ~conv.out.err
        /\ ~conv.back.err
        /\ SameResource(conv.back.resource, [conv.r EXCEPT !.assets = << >>])

\* A resource with assets went through ToYaml and FromYaml.
C23_Witness == conv.stage = "yaml" /\ conv.r.assets # << >>

\* C24: for every well-formed dataset resource r, FromProtobuf(ToProtobuf(r))
\* equals r on all recognized fields, and converting wire -> internal -> wire
\* is the identity on those fields.
C24_ProtobufRoundTrip ==
    conv.stage = "protobuf" =>
        /\ ~conv.out.err
        /\ ~conv.back.err
        /\ SameResource(conv.back.resource, conv.r)
        /\ conv.again = conv.out

\* What the protobuf round trip keeps: a version of at most 32 bits and a
\* table expiration a float64 holds exactly come back as they were, with all
\* other fields; and wire -> internal -> wire is the identity.
C24_WithinWidth ==
    conv.stage = "protobuf" =>
        /\ ~conv.out.err
        /\ ~conv.back.err
        /\ conv.again = conv.out
        /\ SameResource(conv.back.resource,
                        [conv.r EXCEPT !.version = IntOfInt32(Int32(@)),
                                       !.spec.metadata.tableExpiration = Float64(@)])
        /\ conv.r.version.hi = 0 /\ conv.r.spec.metadata.tableExpiration.hi = 0 =>
              SameResource(conv.back.resource, conv.r)

\* A resource with every field set went through ToProtobuf and FromProtobuf.
C24_Witness ==
    /\ conv.stage = "protobuf"
    /\ conv.r.assets # << >>
    /\ conv.r.spec.metadata.tableExpiration # ZeroExpiration
    /\ conv.back.resource = conv.r

\* ------------------------------------- properties of the resource batch
ResourcesDeployed ==
    /\ rpc.method = "DeployResourceSpecification"
    /\ rpc.returned
    /\ rpc.req.projectFound
    /\ \A i \in DOMAIN rpc.req.resources : ~rpc.req.resources[i].adaptFails

\* C27: in a resource batch a failure on one resource spec does not stop the
\* batch: the driver operation is attempted for every spec, exactly one
\* ResourceUpdated event is emitted per driver call and turned into one
\* stream ack (success = true iff the event carries no error), and the
\* per-spec errors are returned together as one aggregated error.
C27_ResourceBatch ==
    ResourcesDeployed =>
        LET specs  == rpc.req.resources
            u      == rpc.resp.updated
            failed == SelectSeq(specs, LAMBDA sp : sp.driverFails)
        IN /\ Len(u.calls) = Len(specs)
           /\ Len(u.events) = Len(specs)
           /\ Len(rpc.resp.stream) = Len(specs)
           /\ \A i \in DOMAIN specs :
                 /\ u.calls[i].name = specs[i].name
                 /\ u.events[i].type = "ResourceUpdated"
                 /\ u.events[i].name = specs[i].name
                 /\ (u.events[i].err = NoError) <=> ~specs[i].driverFails
                 /\ rpc.resp.stream[i].ack
                 /\ rpc.resp.stream[i].resourceName = specs[i].name
                 /\ rpc.resp.stream[i].success <=> (u.events[i].err = NoError)
           /\ IF failed = <<>>
              THEN rpc.resp.err = NoError /\ rpc.resp.code = "OK"
              ELSE /\ rpc.resp.err.kind = "Aggregated"
                   /\ Len(rpc.resp.err.entries) = Len(failed)
                   /\ \A i \in DOMAIN failed : rpc.resp.err.entries[i].job = failed[i].name
                   /\ rpc.resp.code = "Internal"

\* A batch whose first resource failed in the driver and whose second was
\* updated.
C27_Witness ==
    /\ ResourcesDeployed
    /\ Len(rpc.req.resources) = 2
    /\ rpc.req.resources[1].driverFails
    /\ ~rpc.req.resources[2].driverFails
    /\ Len(rpc.resp.stream) = 2
    /\ rpc.resp.stream[2].success

\* -------------------------------------------- properties of two deploys
JobSet(c) == NamesOf(par.call[c].req)

\* Both calls returned success and their job sets differ.
BothSucceeded ==
    /\ par.stage = "run"
    /\ \A c \in Callers : par.call[c].pc = "done" /\ par.call[c].code = "OK"
    /\ JobSet(1) # JobSet(2)

\* C30: for two DeployJobSpecification calls that run concurrently on the
\* same project with different job sets and both return success, the final
\* SpecStore name set and the final ArtifactStore name set each equal the
\* job set of one of the two requests.
C30_OneRequestWins ==
    BothSucceeded =>
        /\ \E c \in Callers : DOMAIN specStore = JobSet(c)
        /\ \E c \in Callers : DOMAIN artifactStore = JobSet(c)

\* What does hold: the SpecStore ends with jobs of one request only and the
\* ArtifactStore with jobs of the two requests only.
C30_WithinRequests ==
    BothSucceeded =>
        /\ \E c \in Callers : DOMAIN specStore \subseteq JobSet(c)
        /\ DOMAIN artifactStore \subseteq JobSet(1) \cup JobSet(2)

\* Both calls succeeded and the project is left with no spec at all.
C30_Witness ==
    /\ BothSucceeded
    /\ specStore = << >>
    /\ artifactStore = << >>

\* Both calls succeeded and the ArtifactStore holds jobs the SpecStore lacks.
C30_StoresDiffer ==
    /\ BothSucceeded
    /\ DOMAIN artifactStore # DOMAIN specStore

\* ------------------------------------- properties of the delete notices
\* The names of the delete notices on the stream, in the order sent.
DeleteNotices ==
    LET sent == SelectSeq(stream, LAMBDA r : ~r.ack /\ Head(r.message).text = "JobRemoteDelete")
    IN [i \in DOMAIN sent |-> sent[i].jobName]

\* The names of the upload acks on the stream.
AckNames == {Acks[i].jobName : i \in DOMAIN Acks}

\* The names of the JobRemoteDelete events of a stage.
RemoteDeletes(evts) ==
    LET del == SelectSeq(evts, LAMBDA e : e.type = "JobRemoteDelete")
    IN [i \in DOMAIN del |-> del[i].name]

TwoTokens(name) ==
    \E d \in DOMAIN name :
        /\ name[d] = "."
        /\ 1 < d /\ d < Len(name)
        /\ \A i \in DOMAIN name : name[i] = "." => i = d

\* The input could not be read: the bytes do not parse, or the name is not
\* two non-empty tokens.
Unreadable(b) == ~b.parses \/ ~TwoTokens(b.name)

NamesParsed(out) ==
    /\ ~out.err
    /\ out.resource.spec.project # <<>>
    /\ out.resource.spec.dataset # <<>>
    /\ out.resource.spec.project \o <<".">> \o out.resource.spec.dataset = out.resource.name

\* C32: the dataset adapter never returns a resource together with a nil
\* error for input it could not read: FromYaml on bytes that fail to parse
\* as YAML and FromYaml/FromProtobuf on a name that is not two non-empty
\* tokens each return a non-nil error, and a name accepted by the Validator
\* is always parsed by the adapters into a non-empty Project and Dataset.
C32_ErrorForUnreadable ==
    /\ conv.stage \in {"fromYaml", "fromProtobuf"} => (Unreadable(conv.b) => conv.out.err)
    /\ conv.stage = "validated" /\ conv.ok => NamesParsed(conv.yaml) /\ NamesParsed(conv.proto)

\* What does hold: every part of the claim but FromYaml on bytes that fail
\* to parse, which returns the empty resource with a nil error.
C32_NamesChecked ==
    /\ conv.stage = "fromProtobuf" => (Unreadable(conv.b) => conv.out.err)
    /\ conv.stage = "fromYaml" =>
          /\ conv.b.parses /\ ~TwoTokens(conv.b.name) => conv.out.err
          /\ ~conv.b.parses => ~conv.out.err /\ conv.out.resource = NoResource
    /\ conv.stage = "validated" /\ conv.ok => NamesParsed(conv.yaml) /\ NamesParsed(conv.proto)

\* FromYaml returned for bytes that do not parse.
C32_Witness ==
    /\ conv.stage = "fromYaml"
    /\ ~conv.b.parses

\* The Validator accepted a name and the adapters parsed it.
C32_Accepted ==
    /\ conv.stage = "validated"
    /\ conv.ok

====
